---- MODULE Spec2Model ----
(***************************************************************************)
(* PO-Assistant front end.                                                 *)
(*                                                                         *)
(* Spec        : one mounted lifetime of the Stories view                  *)
(*               (frontend/src/components/Stories.tsx) together with the   *)
(*               project selector and the story endpoints it talks to.     *)
(*               Every HTTP request is a record in reqs that goes through  *)
(*               "sent" -> "resolved" | "rejected" (the service answered)  *)
(*               and is then delivered to the awaiting handler, so that    *)
(*               requests are served and answers arrive in any order.      *)
(* SpecExtract : the story extraction of Chat.handleSend applied to every  *)
(*               bounded response text.                                    *)
(* SpecChat    : the chat turns (handleSend) of one mounted lifetime of    *)
(*               the Chat view.                                            *)
(* SpecUpload  : the file uploads (handleFileUpload) of one mounted        *)
(*               lifetime of the Chat view.                                *)
(* SpecChatView : messages sent and files attached in one mounted         *)
(*               lifetime of Chat, the model answering in plain text.      *)
(* SpecImages  : one mounted lifetime of the Images view.                  *)
(* SpecJiraSync : the Jira syncs of the Context Management view under     *)
(*               App's tab switches.                                       *)
(* SpecConfluenceSync : the Confluence syncs of one mounted lifetime of    *)
(*               the Context Management view.                              *)
(* SpecMounted  : one mounted lifetime of whichever view (Chat, Context    *)
(*               Management, Stories, Images, BrdUpload).                  *)
(* SpecBusy     : one lifetime of ProjectProvider or of a mounted view,     *)
(*               with every request answered and every handler resumed.    *)
(* SpecProvider : ProjectProvider from its mount (checkConnection) with    *)
(*               ProjectSelector.                                          *)
(***************************************************************************)
EXTENDS Integers, Sequences, FiniteSets, TLC

VARIABLES
    selectedProject,    \* ProjectContext: string | null
    stories,            \* Stories: Story[]
    editingStory,       \* Stories: Story | null, as <<>> or <<story>>
    isPublishing,       \* Stories: string | null
    message,            \* Stories: {type, text} | null, as <<>> or <<m>>
    reqs,               \* what the handlers await: HTTP requests issued and not yet delivered
    issued,             \* how many requests were issued so far
    srv,                \* the service's story table
    lastFetch,          \* the fetch started by the latest run of the effect
    responseText,       \* Chat.handleSend: response.data.response
    generatedStories,   \* Chat.handleSend: the extracted stories
    exPhase,            \* Chat.handleSend: "input" | "done"
    messages,           \* Chat: Message[]
    input,              \* Chat: string, as a sequence of characters
    isLoading,          \* Chat: boolean
    isUploading,        \* Chat: boolean
    storeErrors,        \* Chat: how often console.error('Failed to store story:') ran
    lastOp,             \* the handler that was invoked last
    uploadedImages,     \* Images: ImageUploadResponse[]
    imagesLoading,      \* Images: isLoading
    uploading,          \* BrdUpload: boolean
    uploadProgress,     \* BrdUpload: number
    isJiraSyncing,      \* ContextManagement: boolean
    isConfluenceSyncing, \* ContextManagement: boolean
    contextMessage,     \* ContextManagement: message, as <<>> or <<m>>
    confluenceSpace,    \* ContextManagement: string, as a sequence of characters
    confluenceQuery,    \* ContextManagement: string, as a sequence of characters
    activeTab,          \* App: 'chat' | 'context' | 'stories'
    projects,           \* ProjectProvider: Project[]
    loading,            \* ProjectProvider: boolean
    error,              \* ProjectProvider: string | null
    isJiraConnected,    \* ProjectProvider: boolean
    status,             \* JiraStatus: status?.status, or null
    statusLoading       \* JiraStatus: isLoading

vars == <<selectedProject, stories, editingStory, isPublishing, message,
          reqs, issued, srv, lastFetch,
          responseText, generatedStories, exPhase,
          messages, input, isLoading, isUploading, storeErrors, lastOp,
          uploadedImages, imagesLoading, uploading, uploadProgress,
          isJiraSyncing, isConfluenceSyncing, contextMessage, confluenceSpace,
          confluenceQuery, activeTab, projects, loading, error, isJiraConnected,
          status, statusLoading>>

storiesVars == <<selectedProject, stories, editingStory, isPublishing, message,
                 reqs, issued, srv, lastFetch>>

imagesVars == <<uploadedImages, imagesLoading>>

brdVars == <<uploading, uploadProgress>>

contextVars == <<isJiraSyncing, isConfluenceSyncing, contextMessage,
                 confluenceSpace, confluenceQuery>>

providerVars == <<projects, loading, error, isJiraConnected>>

statusVars == <<status, statusLoading>>

\* the state of the other views, of App and of ProjectProvider
viewVars == <<messages, input, isLoading, isUploading, storeErrors, lastOp,
              imagesVars, brdVars, contextVars, activeTab, providerVars, statusVars>>

\* everything outside the Stories view
chatVars == <<responseText, generatedStories, exPhase, viewVars>>

----------------------------------------------------------------------------
(* Bounds *)

MaxStories == 2     \* stories in the service's table
MaxReq == 4         \* requests issued in one behaviour
MaxTextLen == 7     \* tokens of a response text

----------------------------------------------------------------------------
(* Values *)

Null == "null"
Empty == ""
Projects == {"PA", "PB"}
Truthy(p) == p \notin {Null, Empty}

StoryName == <<"s1", "s2", "s3", "s4", "s5", "s6">>
StoryIdx == 1..MaxStories
StoryIds == {StoryName[i] : i \in StoryIdx}
IdxOf(id) == CHOOSE i \in StoryIdx : StoryName[i] = id

\* what the user leaves in the two text fields of the edit dialog
Edits == {<<"t1", "d1">>}

NoKey == <<>>
JiraKey(id) == <<"KEY", id>>

\* interface Story
Story(id, title, description, published, jira_key) ==
    [id |-> id, title |-> title, description |-> description,
     published |-> published, jira_key |-> jira_key]

NoStory == Story(Null, "", "", FALSE, NoKey)

Msg(type, text) == <<[type |-> type, text |-> text]>>
NoMessage == <<>>

FetchFailedText == <<"Failed to fetch stories. Please try again.">>
SelectFirstText == <<"Please select a project first">>
PublishFailedText == <<"Failed to publish story. Please try again.">>
UpdatedText == <<"Story updated successfully">>
UpdateFailedText == <<"Failed to update story. Please try again.">>
PublishedText(key) == <<"Story successfully published to Jira as", key>>

----------------------------------------------------------------------------
(* The story service, as the specification describes it (4.5 Story         *)
(* Lifecycle Store): a table of stories partitioned by project.            *)

ProjOf(id) == IF IdxOf(id) % 3 = 0 THEN "PB" ELSE "PA"

RECURSIVE ListFrom(_, _, _)
ListFrom(table, p, i) ==
    IF i > MaxStories THEN <<>>
    ELSE (IF ProjOf(StoryName[i]) = p THEN <<table[StoryName[i]]>> ELSE <<>>)
         \o ListFrom(table, p, i + 1)

\* list(project_key): all stories of the namespace, in a stable order
SrvList(table, p) == ListFrom(table, p, 1)

InNamespace(p, id) == id \in StoryIds /\ ProjOf(id) = p

SrvInit == [id \in StoryIds |-> Story(id, "t0", "d0", FALSE, NoKey)]

Request(rid, kind, project, story) ==
    [rid |-> rid, kind |-> kind, project |-> project, story |-> story,
     phase |-> "sent", data |-> <<>>]

Answer(r, phase, data) == [r EXCEPT !.phase = phase, !.data = data]

\* GET /stories/{project_key}
ServeFetch(r) ==
    /\ r.kind = "fetch" /\ r.phase = "sent"
    /\ \/ reqs' = (reqs \ {r}) \cup {Answer(r, "resolved", SrvList(srv, r.project))}
       \/ reqs' = (reqs \ {r}) \cup {Answer(r, "rejected", <<>>)}
    /\ UNCHANGED <<srv>>

\* the kinds of failure of the service
FailureKinds == {"InvalidStateError", "ConfigurationError", "TransientExternalError"}

\* the failures a publish or an update of the story may meet: the state
\* guard fails on a published story only
RejectionsOf(r) ==
    {c \in FailureKinds :
        c = "InvalidStateError" =>
            (InNamespace(r.project, r.story.id) /\ srv[r.story.id].published)}

\* POST /stories/{project_key}/{id}/publish
ServePublish(r) ==
    /\ r.kind = "publish" /\ r.phase = "sent"
    /\ \/ /\ InNamespace(r.project, r.story.id)
          /\ ~srv[r.story.id].published
          /\ srv' = [srv EXCEPT ![r.story.id].published = TRUE,
                                ![r.story.id].jira_key = JiraKey(r.story.id)]
          /\ reqs' = (reqs \ {r}) \cup {Answer(r, "resolved", JiraKey(r.story.id))}
       \/ /\ \E c \in RejectionsOf(r) :
                reqs' = (reqs \ {r}) \cup {Answer(r, "rejected", c)}
          /\ UNCHANGED srv

\* PUT /stories/{project_key}/{id} {updates}
ServeUpdate(r) ==
    /\ r.kind = "update" /\ r.phase = "sent"
    /\ \/ /\ InNamespace(r.project, r.story.id)
          /\ ~srv[r.story.id].published
          /\ srv' = [srv EXCEPT ![r.story.id].title = r.story.title,
                                ![r.story.id].description = r.story.description]
          /\ reqs' = (reqs \ {r}) \cup {Answer(r, "resolved", <<>>)}
       \/ /\ \E c \in RejectionsOf(r) :
                reqs' = (reqs \ {r}) \cup {Answer(r, "rejected", c)}
          /\ UNCHANGED srv

Serve ==
    /\ \E r \in reqs : ServeFetch(r) \/ ServePublish(r) \/ ServeUpdate(r)
    /\ UNCHANGED <<selectedProject, stories, editingStory, isPublishing, message, issued, lastFetch>>
    /\ UNCHANGED chatVars

----------------------------------------------------------------------------
(* Stories.tsx *)

\* a name for the next request of a kind: the least one that no pending
\* request of that kind bears
FreeRid(kind) ==
    CHOOSE k \in 1..MaxReq :
        /\ \A r \in reqs : r.kind = kind => r.rid # k
        /\ \A j \in 1..(k - 1) : \E r \in reqs : r.kind = kind /\ r.rid = j

\* api.get / api.post / api.put: the request leaves
Send(kind, project, story) ==
    /\ issued < MaxReq
    /\ reqs' = reqs \cup {Request(FreeRid(kind), kind, project, story)}
    /\ issued' = issued + 1

\* the Dialog is modal: while it is open nothing behind it takes a click
DialogOpen == editingStory # <<>>

\* the table and its buttons are rendered only with a project selected
TableRendered == Truthy(selectedProject) /\ ~DialogOpen

\* ProjectSelector onChange, then the effect on [selectedProject]
SetSelectedProject(p) ==
    /\ ~DialogOpen
    /\ p # selectedProject
    /\ selectedProject' = p
    /\ IF Truthy(p)
       THEN /\ Send("fetch", p, NoStory)
            /\ lastFetch' = [rid |-> FreeRid("fetch"), outcome |-> "pending"]
       ELSE /\ UNCHANGED <<reqs, issued>>
            /\ lastFetch' = [rid |-> 0, outcome |-> "none"]
    /\ UNCHANGED <<stories, editingStory, isPublishing, message, srv>>
    /\ UNCHANGED chatVars

NoteFetch(r, outcome) ==
    IF lastFetch.rid = r.rid /\ lastFetch.outcome = "pending" THEN [lastFetch EXCEPT !.outcome = outcome] ELSE lastFetch

\* fetchStories: setStories(response.data.stories)
FetchResolved(r) ==
    /\ r \in reqs /\ r.kind = "fetch" /\ r.phase = "resolved"
    /\ stories' = r.data
    /\ reqs' = reqs \ {r}
    /\ lastFetch' = NoteFetch(r, "ok")
    /\ UNCHANGED <<selectedProject, editingStory, isPublishing, message, issued, srv>>
    /\ UNCHANGED chatVars

\* fetchStories: catch
FetchRejected(r) ==
    /\ r \in reqs /\ r.kind = "fetch" /\ r.phase = "rejected"
    /\ message' = Msg("error", FetchFailedText)
    /\ reqs' = reqs \ {r}
    /\ lastFetch' = NoteFetch(r, "err")
    /\ UNCHANGED <<selectedProject, stories, editingStory, isPublishing, issued, srv>>
    /\ UNCHANGED chatVars

\* disabled={story.published || isPublishing === story.id}
PublishEnabled(story, publishing) == ~(story.published \/ publishing = story.id)

\* handlePublish up to its await
HandlePublish(story) ==
    /\ IF ~Truthy(selectedProject)
       THEN /\ message' = Msg("error", SelectFirstText)
            /\ UNCHANGED <<isPublishing, reqs, issued>>
       ELSE /\ isPublishing' = story.id
            /\ message' = NoMessage
            /\ Send("publish", selectedProject, story)
    /\ UNCHANGED <<selectedProject, stories, editingStory, srv, lastFetch>>
    /\ UNCHANGED chatVars

ClickPublish ==
    \E i \in DOMAIN stories :
        /\ TableRendered
        /\ PublishEnabled(stories[i], isPublishing)
        /\ HandlePublish(stories[i])

\* MarkPublished with the jira_key of the response dropped
MarkPublished_NoKey(prev, id, key) ==
    [i \in DOMAIN prev |->
        IF prev[i].id = id THEN [prev[i] EXCEPT !.published = TRUE] ELSE prev[i]]

\* prev.map(s => s.id === story.id ? {...s, published: true, jira_key} : s)
MarkPublished(prev, id, key) ==
    [i \in DOMAIN prev |->
        IF prev[i].id = id
        THEN [prev[i] EXCEPT !.published = TRUE, !.jira_key = key]
        ELSE prev[i]]

\* handlePublish after its await: try, finally
PublishResolved(r) ==
    /\ r \in reqs /\ r.kind = "publish" /\ r.phase = "resolved"
    /\ stories' = MarkPublished(stories, r.story.id, r.data)
    /\ message' = Msg("success", PublishedText(r.data))
    /\ isPublishing' = Null
    /\ reqs' = reqs \ {r}
    /\ UNCHANGED <<selectedProject, editingStory,
                   issued, srv, lastFetch>>
    /\ UNCHANGED chatVars

\* handlePublish, catch (error): the message it sets
PublishCatch(err) == Msg("error", PublishFailedText)

\* PublishRejected without the finally block
PublishRejected_NoFinally(r) ==
    /\ r \in reqs /\ r.kind = "publish" /\ r.phase = "rejected"
    /\ message' = PublishCatch(r.data)
    /\ reqs' = reqs \ {r}
    /\ UNCHANGED <<selectedProject, stories, editingStory, isPublishing, issued,
                   srv, lastFetch>>
    /\ UNCHANGED chatVars

\* handlePublish after its await: catch, finally
PublishRejected(r) ==
    /\ r \in reqs /\ r.kind = "publish" /\ r.phase = "rejected"
    /\ message' = PublishCatch(r.data)
    /\ isPublishing' = Null
    /\ reqs' = reqs \ {r}
    /\ UNCHANGED <<selectedProject, stories, editingStory, issued, srv, lastFetch>>
    /\ UNCHANGED chatVars

\* handleEdit, then the effect of EditDialog on [story]
HandleEdit(story) ==
    /\ editingStory' = <<story>>
    /\ UNCHANGED <<selectedProject, stories, isPublishing, message,
                   reqs, issued, srv, lastFetch>>
    /\ UNCHANGED chatVars

\* the Edit button: disabled={story.published}
ClickEdit ==
    \E i \in DOMAIN stories :
        /\ TableRendered
        /\ ~stories[i].published
        /\ HandleEdit(stories[i])

\* EditDialog: Cancel, or the Dialog's own onClose
CancelEdit ==
    /\ DialogOpen
    /\ editingStory' = <<>>
    /\ UNCHANGED <<selectedProject, stories, isPublishing, message, reqs, issued, srv, lastFetch>>
    /\ UNCHANGED chatVars

\* {...story, title: editedTitle, description: editedDescription}
EditedStory(story, title, description) ==
    [story EXCEPT !.title = title, !.description = description]

\* EditDialog.handleSave: onSave (handleSaveEdit up to its await), then onClose;
\* editedTitle and editedDescription are what the two text fields hold
HandleSave(editedTitle, editedDescription) ==
    /\ DialogOpen
    /\ Send("update", selectedProject,
            EditedStory(editingStory[1], editedTitle, editedDescription))
    /\ editingStory' = <<>>
    /\ UNCHANGED <<selectedProject, stories, isPublishing, message, srv, lastFetch>>
    /\ UNCHANGED chatVars

\* ReplaceStory with the edited story moved to the head of the list
ReplaceStory_ToFront(prev, editedStory) ==
    <<editedStory>> \o SelectSeq(prev, LAMBDA story : story.id # editedStory.id)

\* prev.map(story => story.id === editedStory.id ? editedStory : story)
ReplaceStory(prev, editedStory) ==
    [i \in DOMAIN prev |-> IF prev[i].id = editedStory.id THEN editedStory ELSE prev[i]]

\* handleSaveEdit after its await: try, then setEditingStory(null)
UpdateResolved(r) ==
    /\ r \in reqs /\ r.kind = "update" /\ r.phase = "resolved"
    /\ stories' = ReplaceStory(stories, r.story)
    /\ message' = Msg("success", UpdatedText)
    /\ editingStory' = <<>>
    /\ reqs' = reqs \ {r}
    /\ UNCHANGED <<selectedProject, isPublishing,
                   issued, srv, lastFetch>>
    /\ UNCHANGED chatVars

\* handleSaveEdit, catch (error): the message it sets
UpdateCatch(err) == Msg("error", UpdateFailedText)

\* UpdateRejected with the list updated before the answer is known
UpdateRejected_Optimistic(r) ==
    /\ r \in reqs /\ r.kind = "update" /\ r.phase = "rejected"
    /\ stories' = [i \in DOMAIN stories |->
                      IF stories[i].id = r.story.id THEN r.story ELSE stories[i]]
    /\ message' = UpdateCatch(r.data)
    /\ editingStory' = <<>>
    /\ reqs' = reqs \ {r}
    /\ UNCHANGED <<selectedProject, isPublishing, issued, srv, lastFetch>>
    /\ UNCHANGED chatVars

\* handleSaveEdit after its await: catch, then setEditingStory(null)
UpdateRejected(r) ==
    /\ r \in reqs /\ r.kind = "update" /\ r.phase = "rejected"
    /\ message' = UpdateCatch(r.data)
    /\ editingStory' = <<>>
    /\ reqs' = reqs \ {r}
    /\ UNCHANGED <<selectedProject, stories, isPublishing, issued, srv, lastFetch>>
    /\ UNCHANGED chatVars

\* the Alert's onClose
CloseMessage ==
    /\ TableRendered
    /\ message # NoMessage
    /\ message' = NoMessage
    /\ UNCHANGED <<selectedProject, stories, editingStory, isPublishing, reqs, issued, srv, lastFetch>>
    /\ UNCHANGED chatVars

StoriesInit ==
    /\ selectedProject = Null
    /\ stories = <<>>
    /\ editingStory = <<>>
    /\ isPublishing = Null
    /\ message = NoMessage
    /\ reqs = {}
    /\ issued = 0
    /\ srv = SrvInit
    /\ lastFetch = [rid |-> 0, outcome |-> "none"]

\* the list of GET /jira/projects
ProjectList == <<"PA", "PB">>

\* ProjectProvider once checkConnection has loaded the projects
ProviderLoaded ==
    /\ projects = ProjectList
    /\ loading = FALSE
    /\ error = Null
    /\ isJiraConnected = TRUE

\* the other views as they are constructed
ViewsIdle ==
    /\ messages = <<>>
    /\ input = <<>>
    /\ isLoading = FALSE
    /\ isUploading = FALSE
    /\ storeErrors = 0
    /\ lastOp = "none"
    /\ uploadedImages = <<>>
    /\ imagesLoading = FALSE
    /\ uploading = FALSE
    /\ uploadProgress = 0
    /\ isJiraSyncing = FALSE
    /\ isConfluenceSyncing = FALSE
    /\ contextMessage = NoMessage
    /\ confluenceSpace = <<>>
    /\ confluenceQuery = <<>>
    /\ status = Null
    /\ statusLoading = FALSE
    /\ ProviderLoaded

\* App: useState('chat')
ViewsInit == ViewsIdle /\ activeTab = "chat"

ChatIdle ==
    /\ responseText = <<>>
    /\ generatedStories = <<>>
    /\ exPhase = "idle"
    /\ ViewsInit

Init == StoriesInit /\ ChatIdle

Next ==
    \/ \E p \in Projects \cup {Empty} : SetSelectedProject(p)
    \/ Serve
    \/ \E r \in reqs : FetchResolved(r)
    \/ \E r \in reqs : FetchRejected(r)
    \/ ClickPublish
    \/ \E r \in reqs : PublishResolved(r)
    \/ \E r \in reqs : PublishRejected(r)
    \/ ClickEdit
    \/ CancelEdit
    \/ \E e \in Edits : HandleSave(e[1], e[2])
    \/ \E r \in reqs : UpdateResolved(r)
    \/ \E r \in reqs : UpdateRejected(r)
    \/ CloseMessage

Spec == Init /\ [][Next]_vars

----------------------------------------------------------------------------
(* Chat.handleSend: the story extraction (Chat.tsx)                        *)
(*                                                                         *)
(* A response text is a sequence of tokens: "ST" is the literal            *)
(* 'Story Title: ', "DE" the literal 'Description: ', "NL" the newline and *)
(* "x" any other character.  Neither literal overlaps itself or the other, *)
(* so matching them as single tokens is what the character-level regular   *)
(* expressions do.  `.` matches every token but "NL"; `$` (no m flag)      *)
(* matches at the end of the input only.                                   *)

Tokens == {"ST", "DE", "NL", "x"}
Texts == UNION {[1..n -> Tokens] : n \in 0..MaxTextLen}

UntitledStory == <<"Untitled Story">>
NoDescription == <<"No description">>

\* where a lazy (.*?) that starts at from stops when a newline or the end of
\* the input must follow: the first newline at or after from, else Len + 1
LineEnd(s, from) ==
    CHOOSE p \in from..(Len(s) + 1) :
        /\ p = Len(s) + 1 \/ s[p] = "NL"
        /\ \A q \in from..(p - 1) : s[q] # "NL"

\* /Story Title: (.*?)\nDescription: (.*?)(?:\n|$)/ tried at position i:
\* 0 when it fails, else the position after the match
MatchEnd(s, i) ==
    IF i > Len(s) \/ s[i] # "ST" THEN 0
    ELSE LET e1 == LineEnd(s, i + 1) IN
         IF e1 + 1 > Len(s) \/ s[e1 + 1] # "DE" THEN 0
         ELSE LET e2 == LineEnd(s, e1 + 2) IN
              IF e2 <= Len(s) THEN e2 + 1 ELSE e2

\* String.prototype.match with the g flag: every match, leftmost first, each
\* search resuming where the last match ended; <<>> stands for null
RECURSIVE GlobalMatch(_, _)
GlobalMatch(s, pos) ==
    IF \A i \in pos..Len(s) : MatchEnd(s, i) = 0 THEN <<>>
    ELSE LET i == CHOOSE j \in pos..Len(s) :
                      /\ MatchEnd(s, j) # 0
                      /\ \A k \in pos..(j - 1) : MatchEnd(s, k) = 0
         IN <<SubSeq(s, i, MatchEnd(s, i) - 1)>> \o GlobalMatch(s, MatchEnd(s, i))

\* match.match(/Story Title: (.*?)\n/): <<>> for null, else <<group 1>>
TitleMatch(m) ==
    LET hits == {i \in 1..Len(m) : m[i] = "ST" /\ LineEnd(m, i + 1) <= Len(m)} IN
    IF hits = {} THEN <<>>
    ELSE LET i == CHOOSE j \in hits : \A k \in hits : j <= k
         IN <<SubSeq(m, i + 1, LineEnd(m, i + 1) - 1)>>

\* match.match(/Description: (.*?)(?:\n|$)/): <<>> for null, else <<group 1>>
DescMatch(m) ==
    LET hits == {i \in 1..Len(m) : m[i] = "DE"} IN
    IF hits = {} THEN <<>>
    ELSE LET i == CHOOSE j \in hits : \A k \in hits : j <= k
         IN <<SubSeq(m, i + 1, LineEnd(m, i + 1) - 1)>>

\* the callback of storyMatch.map; the id (Date.now() + Math.random()) is left out
StoryOfMatch(m) ==
    [title |-> IF TitleMatch(m) # <<>> THEN TitleMatch(m)[1] ELSE UntitledStory,
     description |-> IF DescMatch(m) # <<>> THEN DescMatch(m)[1] ELSE NoDescription,
     published |-> FALSE]

\* handleSend: storyMatch, then stories
ExtractStories(text) ==
    LET storyMatch == GlobalMatch(text, 1) IN
    IF storyMatch = <<>> THEN <<>>
    ELSE [k \in DOMAIN storyMatch |-> StoryOfMatch(storyMatch[k])]

Extract ==
    /\ exPhase = "input"
    /\ generatedStories' = ExtractStories(responseText)
    /\ exPhase' = "done"
    /\ UNCHANGED responseText
    /\ UNCHANGED storiesVars
    /\ UNCHANGED viewVars

ExtractInit ==
    /\ StoriesInit
    /\ responseText \in Texts
    /\ generatedStories = <<>>
    /\ exPhase = "input"
    /\ ViewsInit

ExtractNext == Extract

SpecExtract == ExtractInit /\ [][ExtractNext]_vars

----------------------------------------------------------------------------
(* Chat.tsx: one mounted lifetime of the Chat view                         *)
(*                                                                         *)
(* The story field of a request holds what the awaiting handler keeps in   *)
(* its closure; a handler resumes when its request is delivered.           *)

\* what the text field is made to hold
Inputs == {<<>>, <<" ">>, <<"q">>, <<" ", "q", " ">>}

\* String.prototype.trim
RECURSIVE Trim(_)
Trim(s) ==
    IF s = <<>> THEN <<>>
    ELSE IF Head(s) = " " THEN Trim(Tail(s))
    ELSE IF s[Len(s)] = " " THEN Trim(SubSeq(s, 1, Len(s) - 1))
    ELSE s

\* interface Message; generatedStories is <<>> when the field is absent and
\* <<stories>> when it is set; id, timestamp and attachments are left out
Message(type, content, stories_) ==
    [type |-> type, content |-> content, generatedStories |-> stories_]

ChatFailedText == <<"Failed to process your message. Please try again.">>
UploadedImageText == <<"Uploaded image:">>
UploadedDocumentText == <<"Uploaded document:">>
AnalyzeText == <<"Please analyze this document:">>

\* response.data.response of POST /chat
Replies ==
    { <<>>,
      <<"x">>,
      <<"DE", "x", "NL", "x">>,
      <<"ST", "x">>,
      <<"ST", "x", "NL", "DE", "x">>,
      <<"ST", "x", "NL", "DE", "x", "NL", "ST", "NL", "DE">> }

\* response.data.description of POST /upload_image
Descriptions == {<<>>, <<"x">>}

FileTypes == {"image", "doc"}

\* the views that Chat does not touch
chatRest == <<stories, editingStory, isPublishing, message, srv, lastFetch,
              responseText, generatedStories, exPhase,
              imagesVars, brdVars, contextVars, activeTab, providerVars, statusVars>>

chatFrame == <<chatRest, storeErrors>>

\* the service answers POST /chat
ServeChat(r) ==
    /\ r.kind = "chat" /\ r.phase = "sent"
    /\ \/ \E text \in Replies : reqs' = (reqs \ {r}) \cup {Answer(r, "resolved", text)}
       \/ reqs' = (reqs \ {r}) \cup {Answer(r, "rejected", <<>>)}

\* the service answers POST /stories
ServeStore(r) ==
    /\ r.kind = "store" /\ r.phase = "sent"
    /\ \/ reqs' = (reqs \ {r}) \cup {Answer(r, "resolved", <<>>)}
       \/ reqs' = (reqs \ {r}) \cup {Answer(r, "rejected", <<>>)}

\* the service answers POST /upload_image
ServeUploadImage(r) ==
    /\ r.kind = "upload_image" /\ r.phase = "sent"
    /\ \/ \E d \in Descriptions : reqs' = (reqs \ {r}) \cup {Answer(r, "resolved", d)}
       \/ reqs' = (reqs \ {r}) \cup {Answer(r, "rejected", <<>>)}

ChatServe ==
    /\ \E r \in reqs : ServeChat(r) \/ ServeStore(r)
    /\ UNCHANGED lastOp
    /\ UNCHANGED <<selectedProject, issued, messages, input, isLoading, isUploading>>
    /\ UNCHANGED chatFrame

\* ProjectSelector onChange while Chat is the view that is mounted
SelectProject(p) ==
    /\ p # selectedProject
    /\ selectedProject' = p
    /\ UNCHANGED lastOp
    /\ UNCHANGED <<reqs, issued, messages, input, isLoading, isUploading>>
    /\ UNCHANGED chatFrame

\* the TextField: disabled={isLoading || isUploading || !selectedProject}
TextFieldEnabled == ~(isLoading \/ isUploading \/ ~Truthy(selectedProject))

\* onChange={(e) => setInput(e.target.value)}
SetInput(text) ==
    /\ TextFieldEnabled
    /\ text # input
    /\ input' = text
    /\ UNCHANGED lastOp
    /\ UNCHANGED <<selectedProject, reqs, issued, messages, isLoading, isUploading>>
    /\ UNCHANGED chatFrame

\* the handler continues with one more request in place of the one delivered
SendNext(r, kind, project, closure) ==
    /\ issued < MaxReq
    /\ reqs' = (reqs \ {r}) \cup {Request(FreeRid(kind), kind, project, closure)}
    /\ issued' = issued + 1

\* HandleSend with the guard on the untrimmed input
HandleSend_NoTrim ==
    /\ lastOp' = "handleSend"
    /\ IF input = <<>> \/ ~Truthy(selectedProject)
       THEN UNCHANGED <<messages, input, isLoading, reqs, issued>>
       ELSE /\ messages' = Append(messages, Message("user", input, <<>>))
            /\ input' = <<>>
            /\ isLoading' = TRUE
            /\ Send("chat", selectedProject, [from |-> "handleSend", message |-> input])
    /\ UNCHANGED <<selectedProject, isUploading>>
    /\ UNCHANGED chatFrame

\* handleSend up to its first await
HandleSend ==
    /\ lastOp' = "handleSend"
    /\ IF Trim(input) = <<>> \/ ~Truthy(selectedProject)
       THEN UNCHANGED <<messages, input, isLoading, reqs, issued>>
       ELSE /\ messages' = Append(messages, Message("user", input, <<>>))
            /\ input' = <<>>
            /\ isLoading' = TRUE
            /\ Send("chat", selectedProject, [from |-> "handleSend", message |-> input])
    /\ UNCHANGED <<selectedProject, isUploading>>
    /\ UNCHANGED chatFrame

\* handleKeyPress: Enter without Shift in the text field
KeyPressEnter == TextFieldEnabled /\ HandleSend

\* the Send button: disabled={!input.trim() || isLoading || isUploading || !selectedProject}
ClickSend ==
    /\ ~(Trim(input) = <<>> \/ isLoading \/ isUploading \/ ~Truthy(selectedProject))
    /\ HandleSend

\* storyMatch and stories of handleSend for each response text
Extracted == [text \in Replies |-> ExtractStories(text)]

\* the closure of handleSend inside the loop over stories, at story k
StoreClosure(response, found, k) ==
    [from |-> "handleSend", response |-> response, stories |-> found,
     k |-> k, story |-> found[k]]

\* FinishTurn with setMessages([...messages, assistantMessage]) on the
\* messages of the render in which handleSend was called
FinishTurn_StaleMessages(r, assistantMessage) ==
    /\ messages' = Append(SubSeq(messages, 1, Len(messages) - 1), assistantMessage)
    /\ isLoading' = FALSE
    /\ reqs' = reqs \ {r}
    /\ UNCHANGED issued

\* handleSend at the end of its try block, then finally
FinishTurn(r, assistantMessage) ==
    /\ messages' = Append(messages, assistantMessage)
    /\ isLoading' = FALSE
    /\ reqs' = reqs \ {r}
    /\ UNCHANGED issued

\* HandleSendResolved with generatedStories set whatever the extraction found
HandleSendResolved_AttachEmpty(r) ==
    /\ r \in reqs /\ r.kind = "chat" /\ r.phase = "resolved"
    /\ r.story.from = "handleSend"
    /\ UNCHANGED lastOp
    /\ LET found == ExtractStories(r.data) IN
       IF Len(found) > 0
       THEN /\ SendNext(r, "store", r.project, StoreClosure(r.data, found, 1))
            /\ UNCHANGED <<messages, isLoading>>
       ELSE FinishTurn(r, Message("assistant", r.data, <<found>>))
    /\ UNCHANGED <<selectedProject, input, isUploading>>
    /\ UNCHANGED chatFrame

\* handleSend after POST /chat resolved: the extraction and the first story
HandleSendResolved(r) ==
    /\ r \in reqs /\ r.kind = "chat" /\ r.phase = "resolved"
    /\ r.story.from = "handleSend"
    /\ UNCHANGED lastOp
    /\ LET found == Extracted[r.data] IN
       IF Len(found) > 0
       THEN /\ SendNext(r, "store", r.project, StoreClosure(r.data, found, 1))
            /\ UNCHANGED <<messages, isLoading>>
       ELSE FinishTurn(r, Message("assistant", r.data, <<>>))
    /\ UNCHANGED <<selectedProject, input, isUploading>>
    /\ UNCHANGED chatFrame

\* HandleSendRejected with a catch block that only logs
HandleSendRejected_Silent(r) ==
    /\ r \in reqs /\ r.kind = "chat" /\ r.phase = "rejected"
    /\ r.story.from = "handleSend"
    /\ UNCHANGED lastOp
    /\ isLoading' = FALSE
    /\ reqs' = reqs \ {r}
    /\ UNCHANGED <<messages, issued>>
    /\ UNCHANGED <<selectedProject, input, isUploading>>
    /\ UNCHANGED chatFrame

\* handleSend after POST /chat rejected: catch, finally
HandleSendRejected(r) ==
    /\ r \in reqs /\ r.kind = "chat" /\ r.phase = "rejected"
    /\ r.story.from = "handleSend"
    /\ UNCHANGED lastOp
    /\ FinishTurn(r, Message("assistant", ChatFailedText, <<>>))
    /\ UNCHANGED <<selectedProject, input, isUploading>>
    /\ UNCHANGED chatFrame

\* StoreLoop reading the project that is selected when the request leaves
StoreLoop_CurrentProject(r) ==
    LET c == r.story IN
    IF c.k < Len(c.stories)
    THEN /\ SendNext(r, "store", selectedProject,
                     StoreClosure(c.response, c.stories, c.k + 1))
         /\ UNCHANGED <<messages, isLoading>>
    ELSE FinishTurn(r, Message("assistant", c.response, <<c.stories>>))

\* the loop over stories after story k: the next story, or the end of the try
\* block with generatedStories set on the assistant message
StoreLoop(r) ==
    LET c == r.story IN
    IF c.k < Len(c.stories)
    THEN /\ SendNext(r, "store", r.project, StoreClosure(c.response, c.stories, c.k + 1))
         /\ UNCHANGED <<messages, isLoading>>
    ELSE FinishTurn(r, Message("assistant", c.response, <<c.stories>>))

\* handleSend after a POST /stories resolved
StoreResolved(r) ==
    /\ r \in reqs /\ r.kind = "store" /\ r.phase = "resolved"
    /\ UNCHANGED lastOp
    /\ StoreLoop(r)
    /\ UNCHANGED <<selectedProject, input, isUploading>>
    /\ UNCHANGED chatFrame

\* StoreFailed without the inner try: the error reaches the outer catch
StoreFailed_Rethrow(r) ==
    FinishTurn(r, Message("assistant", ChatFailedText, <<>>))

\* what handleSend does with a POST /stories that failed: the inner catch
\* logs the error and the loop goes on
StoreFailed(r) == StoreLoop(r)

\* handleSend after a POST /stories rejected
StoreRejected(r) ==
    /\ r \in reqs /\ r.kind = "store" /\ r.phase = "rejected"
    /\ UNCHANGED lastOp
    /\ StoreFailed(r)
    /\ storeErrors' = storeErrors + 1
    /\ UNCHANGED <<selectedProject, input, isUploading>>
    /\ UNCHANGED chatRest

\* handleFileUpload up to its first await: POST /upload_image for an image,
\* file.text() for any other file
HandleFileUpload(file) ==
    /\ lastOp' = "handleFileUpload"
    /\ IF ~Truthy(selectedProject)
       THEN UNCHANGED <<isUploading, reqs, issued>>
       ELSE /\ isUploading' = TRUE
            /\ IF file = "image"
               THEN Send("upload_image", selectedProject, [from |-> "handleFileUpload"])
               ELSE /\ reqs' = reqs \cup
                        {Answer(Request(FreeRid("text"), "text", selectedProject,
                                        [from |-> "handleFileUpload"]),
                                "resolved", <<"x">>)}
                    /\ UNCHANGED issued
    /\ UNCHANGED <<selectedProject, messages, input, isLoading>>
    /\ UNCHANGED chatFrame

\* the two attach buttons: disabled={isUploading || !selectedProject}
ClickAttach(file) ==
    /\ ~(isUploading \/ ~Truthy(selectedProject))
    /\ HandleFileUpload(file)

\* handleFileUpload after POST /upload_image resolved
UploadImageResolved(r) ==
    /\ r \in reqs /\ r.kind = "upload_image" /\ r.phase = "resolved"
    /\ r.story.from = "handleFileUpload"
    /\ UNCHANGED lastOp
    /\ messages' = messages \o <<Message("user", UploadedImageText, <<>>)>>
                     \o (IF r.data # <<>> THEN <<Message("assistant", r.data, <<>>)>> ELSE <<>>)
    /\ isUploading' = FALSE
    /\ reqs' = reqs \ {r}
    /\ UNCHANGED <<selectedProject, issued, input, isLoading>>
    /\ UNCHANGED chatFrame

\* handleFileUpload after a request rejected: catch (alert), finally
UploadRejected(r) ==
    /\ r \in reqs /\ r.kind \in {"upload_image", "chat"} /\ r.phase = "rejected"
    /\ r.story.from = "handleFileUpload"
    /\ UNCHANGED lastOp
    /\ isUploading' = FALSE
    /\ reqs' = reqs \ {r}
    /\ UNCHANGED <<selectedProject, issued, messages, input, isLoading>>
    /\ UNCHANGED chatFrame

\* handleFileUpload after file.text(): the user message, then POST /chat
FileTextRead(r) ==
    /\ r \in reqs /\ r.kind = "text" /\ r.phase = "resolved"
    /\ UNCHANGED lastOp
    /\ messages' = Append(messages, Message("user", UploadedDocumentText, <<>>))
    /\ SendNext(r, "chat", r.project,
                [from |-> "handleFileUpload", message |-> AnalyzeText \o r.data])
    /\ UNCHANGED <<selectedProject, input, isLoading, isUploading>>
    /\ UNCHANGED chatFrame

\* handleFileUpload after POST /chat resolved
UploadChatResolved(r) ==
    /\ r \in reqs /\ r.kind = "chat" /\ r.phase = "resolved"
    /\ r.story.from = "handleFileUpload"
    /\ UNCHANGED lastOp
    /\ messages' = Append(messages, Message("assistant", r.data, <<>>))
    /\ isUploading' = FALSE
    /\ reqs' = reqs \ {r}
    /\ UNCHANGED <<selectedProject, issued, input, isLoading>>
    /\ UNCHANGED chatFrame

ChatNext ==
    \/ \E p \in Projects \cup {Empty} : SelectProject(p)
    \/ \E text \in Inputs : SetInput(text)
    \/ KeyPressEnter
    \/ ClickSend
    \/ ChatServe
    \/ \E r \in reqs : HandleSendResolved(r)
    \/ \E r \in reqs : HandleSendRejected(r)
    \/ \E r \in reqs : StoreResolved(r)
    \/ \E r \in reqs : StoreRejected(r)

\* the chat turns of one mounted lifetime of Chat
SpecChat == Init /\ [][ChatNext]_vars

UploadServe ==
    /\ \E r \in reqs : ServeUploadImage(r) \/ ServeChat(r)
    /\ UNCHANGED <<selectedProject, issued, messages, input, isLoading, isUploading, lastOp>>
    /\ UNCHANGED chatFrame

UploadNext ==
    \/ \E p \in Projects \cup {Empty} : SelectProject(p)
    \/ \E file \in FileTypes : ClickAttach(file)
    \/ UploadServe
    \/ \E r \in reqs : UploadImageResolved(r)
    \/ \E r \in reqs : UploadRejected(r)
    \/ \E r \in reqs : FileTextRead(r)
    \/ \E r \in reqs : UploadChatResolved(r)

\* the file uploads of one mounted lifetime of Chat
SpecUpload == Init /\ [][UploadNext]_vars

----------------------------------------------------------------------------
(* Chat: messages sent and files attached in one mounted lifetime, with a  *)
(* model that answers in plain text                                        *)

\* response.data.response of POST /chat without story markers
PlainReplies == {r \in Replies : Len(r) = 1}

\* the service answers POST /chat in plain text, and POST /upload_image
PlainServe ==
    /\ \E r \in reqs :
          \/ /\ r.kind = "chat" /\ r.phase = "sent"
             /\ \/ \E text \in PlainReplies :
                      reqs' = (reqs \ {r}) \cup {Answer(r, "resolved", text)}
                \/ reqs' = (reqs \ {r}) \cup {Answer(r, "rejected", <<>>)}
          \/ ServeUploadImage(r)
    /\ UNCHANGED <<selectedProject, issued, messages, input, isLoading, isUploading, lastOp>>
    /\ UNCHANGED chatFrame

ChatViewNext ==
    \/ \E p \in Projects \cup {Empty} : SelectProject(p)
    \/ \E text \in Inputs : SetInput(text)
    \/ KeyPressEnter
    \/ ClickSend
    \/ PlainServe
    \/ \E r \in reqs : HandleSendResolved(r)
    \/ \E r \in reqs : HandleSendRejected(r)
    \/ \E file \in FileTypes : ClickAttach(file)
    \/ \E r \in reqs : UploadImageResolved(r)
    \/ \E r \in reqs : UploadRejected(r)
    \/ \E r \in reqs : FileTextRead(r)
    \/ \E r \in reqs : UploadChatResolved(r)

SpecChatView == Init /\ [][ChatViewNext]_vars

----------------------------------------------------------------------------
(* Images.tsx: one mounted lifetime of the Images view *)

MaxBatch == 2       \* files of one drop

\* acceptedFiles, by the number of files
Batches == 0..MaxBatch

\* what Images does not touch
imagesFrame == <<stories, editingStory, isPublishing, message, srv, lastFetch,
                 responseText, generatedStories, exPhase,
                 messages, input, isLoading, isUploading, storeErrors,
                 brdVars, contextVars, activeTab, providerVars, statusVars>>

\* ProjectSelector onChange while Images is the view that is mounted
ImagesSelectProject(p) ==
    /\ p # selectedProject
    /\ selectedProject' = p
    /\ UNCHANGED <<reqs, issued, lastOp, imagesVars>>
    /\ UNCHANGED imagesFrame

ImagesServe ==
    /\ \E r \in reqs : ServeUploadImage(r)
    /\ UNCHANGED <<selectedProject, issued, lastOp, imagesVars>>
    /\ UNCHANGED imagesFrame

\* the closure of onDrop inside the loop over n files, at file k
DropClosure(n, k) == [from |-> "onDrop", files |-> n, k |-> k]

\* onDrop up to its first await; the dropzone takes a drop at any time
OnDrop(n) ==
    /\ lastOp' = "onDrop"
    /\ IF ~Truthy(selectedProject)
       THEN UNCHANGED <<imagesLoading, reqs, issued>>
       ELSE IF n = 0
            THEN /\ imagesLoading' = FALSE
                 /\ UNCHANGED <<reqs, issued>>
            ELSE /\ imagesLoading' = TRUE
                 /\ Send("upload_image", selectedProject, DropClosure(n, 1))
    /\ UNCHANGED <<selectedProject, uploadedImages>>
    /\ UNCHANGED imagesFrame

\* onDrop after POST /upload_image resolved: setUploadedImages, then the next
\* file, or finally
ImageUploaded(r) ==
    /\ r \in reqs /\ r.kind = "upload_image" /\ r.phase = "resolved"
    /\ r.story.from = "onDrop"
    /\ uploadedImages' = Append(uploadedImages, r.data)
    /\ IF r.story.k < r.story.files
       THEN /\ SendNext(r, "upload_image", r.project,
                        DropClosure(r.story.files, r.story.k + 1))
            /\ UNCHANGED imagesLoading
       ELSE /\ reqs' = reqs \ {r}
            /\ imagesLoading' = FALSE
            /\ UNCHANGED issued
    /\ UNCHANGED <<selectedProject, lastOp>>
    /\ UNCHANGED imagesFrame

\* onDrop after POST /upload_image rejected: the catch is outside the loop
ImageUploadFailed(r) ==
    /\ r \in reqs /\ r.kind = "upload_image" /\ r.phase = "rejected"
    /\ r.story.from = "onDrop"
    /\ imagesLoading' = FALSE
    /\ reqs' = reqs \ {r}
    /\ UNCHANGED <<selectedProject, issued, lastOp, uploadedImages>>
    /\ UNCHANGED imagesFrame

ImagesNext ==
    \/ \E p \in Projects \cup {Empty} : ImagesSelectProject(p)
    \/ \E n \in Batches : OnDrop(n)
    \/ ImagesServe
    \/ \E r \in reqs : ImageUploaded(r)
    \/ \E r \in reqs : ImageUploadFailed(r)

SpecImages == Init /\ [][ImagesNext]_vars

----------------------------------------------------------------------------
(* ContextManagement.tsx under App: the Context Management view while the  *)
(* user moves between the Chat tab and the Context Management tab.  App    *)
(* renders the view only while its tab is active, so leaving the tab       *)
(* unmounts it and coming back mounts a new instance in its initial state. *)
(* A handler of an unmounted instance still runs when its request is       *)
(* answered, but its state updates are dropped.  The child JiraStatus      *)
(* keeps its own state and is not part of this view's model.               *)

MaxResults == 50

ContextTabs == {"chat", "context"}

JiraSyncFailedText == <<"Failed to sync Jira data. Please check your configuration.">>
ConfluenceSyncFailedText == <<"Failed to sync Confluence data. Please check your configuration.">>
EnterSpaceText == <<"Please enter a Confluence space key">>
SyncedText(text) == <<"Successfully synced", text>>

\* what the Space Key field is made to hold
SpaceKeys == {<<>>, <<" ">>, <<"q">>}

\* what the Search Query field is made to hold
Queries == {<<>>, <<" ">>, <<" ", "q", " ">>}

\* response.data.message of the two sync endpoints
SyncReplies == {"5 issues"}

\* what ContextManagement and App do not touch
contextFrame == <<stories, editingStory, isPublishing, message, srv, lastFetch,
                  responseText, generatedStories, exPhase,
                  messages, input, isLoading, isUploading, storeErrors,
                  imagesVars, brdVars, providerVars, statusVars>>

ContextMounted == activeTab = "context"

\* ProjectSelector onChange; the selector is rendered above the tabs
ContextSelectProject(p) ==
    /\ p # selectedProject
    /\ selectedProject' = p
    /\ UNCHANGED <<reqs, issued, lastOp, contextVars, activeTab>>
    /\ UNCHANGED contextFrame

\* the handler that awaits r belongs to an instance that is unmounted now
Unmounted(r) ==
    IF r.kind \in {"sync_jira", "sync_confluence"}
    THEN [r EXCEPT !.story.live = FALSE]
    ELSE r

\* Navigation onTabChange: setActiveTab; the view of the old tab is
\* unmounted, the view of the new tab is mounted in its initial state
SetActiveTab(tab) ==
    /\ tab # activeTab
    /\ activeTab' = tab
    /\ isJiraSyncing' = FALSE
    /\ isConfluenceSyncing' = FALSE
    /\ contextMessage' = NoMessage
    /\ confluenceSpace' = <<>>
    /\ confluenceQuery' = <<>>
    /\ reqs' = {Unmounted(r) : r \in reqs}
    /\ UNCHANGED <<selectedProject, issued, lastOp>>
    /\ UNCHANGED contextFrame

\* the service answers POST /sync_jira or POST /sync_confluence
ServeSync(r) ==
    /\ r.kind \in {"sync_jira", "sync_confluence"} /\ r.phase = "sent"
    /\ \/ \E text \in SyncReplies : reqs' = (reqs \ {r}) \cup {Answer(r, "resolved", text)}
       \/ reqs' = (reqs \ {r}) \cup {Answer(r, "rejected", <<>>)}

ContextServe ==
    /\ \E r \in reqs : ServeSync(r)
    /\ UNCHANGED <<selectedProject, issued, lastOp, contextVars, activeTab>>
    /\ UNCHANGED contextFrame

\* onChange={(e) => setConfluenceSpace(e.target.value)}
SetConfluenceSpace(text) ==
    /\ ContextMounted
    /\ text # confluenceSpace
    /\ confluenceSpace' = text
    /\ UNCHANGED <<selectedProject, reqs, issued, lastOp, isJiraSyncing,
                   isConfluenceSyncing, contextMessage, confluenceQuery, activeTab>>
    /\ UNCHANGED contextFrame

\* onChange={(e) => setConfluenceQuery(e.target.value)}
SetConfluenceQuery(text) ==
    /\ ContextMounted
    /\ text # confluenceQuery
    /\ confluenceQuery' = text
    /\ UNCHANGED <<selectedProject, reqs, issued, lastOp, isJiraSyncing,
                   isConfluenceSyncing, contextMessage, confluenceSpace, activeTab>>
    /\ UNCHANGED contextFrame

\* the Alert's onClose
CloseContextMessage ==
    /\ ContextMounted
    /\ contextMessage # NoMessage
    /\ contextMessage' = NoMessage
    /\ UNCHANGED <<selectedProject, reqs, issued, lastOp, isJiraSyncing,
                   isConfluenceSyncing, confluenceSpace, confluenceQuery, activeTab>>
    /\ UNCHANGED contextFrame

\* handleJiraSync up to its await
HandleJiraSync ==
    /\ lastOp' = "handleJiraSync"
    /\ IF ~Truthy(selectedProject)
       THEN /\ contextMessage' = Msg("error", SelectFirstText)
            /\ UNCHANGED <<isJiraSyncing, reqs, issued>>
       ELSE /\ isJiraSyncing' = TRUE
            /\ contextMessage' = NoMessage
            /\ Send("sync_jira", selectedProject,
                    [from |-> "handleJiraSync", live |-> TRUE,
                     max_results |-> MaxResults])
    /\ UNCHANGED <<selectedProject, isConfluenceSyncing, confluenceSpace,
                   confluenceQuery, activeTab>>
    /\ UNCHANGED contextFrame

\* the Sync Jira Issues button: disabled={isJiraSyncing || !selectedProject}
ClickJiraSync ==
    /\ ContextMounted
    /\ ~(isJiraSyncing \/ ~Truthy(selectedProject))
    /\ HandleJiraSync

\* handleJiraSync after its await: try, finally
JiraSyncResolved(r) ==
    /\ r \in reqs /\ r.kind = "sync_jira" /\ r.phase = "resolved"
    /\ reqs' = reqs \ {r}
    /\ IF r.story.live
       THEN /\ contextMessage' = Msg("success", SyncedText(r.data))
            /\ isJiraSyncing' = FALSE
       ELSE UNCHANGED <<contextMessage, isJiraSyncing>>
    /\ UNCHANGED <<selectedProject, issued, lastOp, isConfluenceSyncing,
                   confluenceSpace, confluenceQuery, activeTab>>
    /\ UNCHANGED contextFrame

\* JiraSyncRejected without the finally block
JiraSyncRejected_NoFinally(r) ==
    /\ r \in reqs /\ r.kind = "sync_jira" /\ r.phase = "rejected"
    /\ reqs' = reqs \ {r}
    /\ IF r.story.live
       THEN contextMessage' = Msg("error", JiraSyncFailedText)
       ELSE UNCHANGED contextMessage
    /\ UNCHANGED <<selectedProject, issued, lastOp, isJiraSyncing, isConfluenceSyncing,
                   confluenceSpace, confluenceQuery, activeTab>>
    /\ UNCHANGED contextFrame

\* handleJiraSync after its await: catch, finally
JiraSyncRejected(r) ==
    /\ r \in reqs /\ r.kind = "sync_jira" /\ r.phase = "rejected"
    /\ reqs' = reqs \ {r}
    /\ IF r.story.live
       THEN /\ contextMessage' = Msg("error", JiraSyncFailedText)
            /\ isJiraSyncing' = FALSE
       ELSE UNCHANGED <<contextMessage, isJiraSyncing>>
    /\ UNCHANGED <<selectedProject, issued, lastOp, isConfluenceSyncing,
                   confluenceSpace, confluenceQuery, activeTab>>
    /\ UNCHANGED contextFrame

\* confluenceQuery.trim() || undefined: <<>> when the field is left out of
\* the request, else <<the trimmed text>>
SearchQuery(query) == IF Trim(query) = <<>> THEN <<>> ELSE <<Trim(query)>>

\* HandleConfluenceSync with the guard on the untrimmed space key
HandleConfluenceSync_NoTrim ==
    /\ lastOp' = "handleConfluenceSync"
    /\ IF ~Truthy(selectedProject)
       THEN /\ contextMessage' = Msg("error", SelectFirstText)
            /\ UNCHANGED <<isConfluenceSyncing, reqs, issued>>
       ELSE IF confluenceSpace = <<>>
            THEN /\ contextMessage' = Msg("error", EnterSpaceText)
                 /\ UNCHANGED <<isConfluenceSyncing, reqs, issued>>
            ELSE /\ isConfluenceSyncing' = TRUE
                 /\ contextMessage' = NoMessage
                 /\ Send("sync_confluence", selectedProject,
                         [from |-> "handleConfluenceSync", live |-> TRUE,
                          space_key |-> confluenceSpace,
                          search_query |-> SearchQuery(confluenceQuery),
                          max_results |-> MaxResults])
    /\ UNCHANGED <<selectedProject, isJiraSyncing, confluenceSpace,
                   confluenceQuery, activeTab>>
    /\ UNCHANGED contextFrame

\* handleConfluenceSync up to its await
HandleConfluenceSync ==
    /\ lastOp' = "handleConfluenceSync"
    /\ IF ~Truthy(selectedProject)
       THEN /\ contextMessage' = Msg("error", SelectFirstText)
            /\ UNCHANGED <<isConfluenceSyncing, reqs, issued>>
       ELSE IF Trim(confluenceSpace) = <<>>
            THEN /\ contextMessage' = Msg("error", EnterSpaceText)
                 /\ UNCHANGED <<isConfluenceSyncing, reqs, issued>>
            ELSE /\ isConfluenceSyncing' = TRUE
                 /\ contextMessage' = NoMessage
                 /\ Send("sync_confluence", selectedProject,
                         [from |-> "handleConfluenceSync", live |-> TRUE,
                          space_key |-> confluenceSpace,
                          search_query |-> SearchQuery(confluenceQuery),
                          max_results |-> MaxResults])
    /\ UNCHANGED <<selectedProject, isJiraSyncing, confluenceSpace,
                   confluenceQuery, activeTab>>
    /\ UNCHANGED contextFrame

\* the Sync Confluence Pages button:
\* disabled={isConfluenceSyncing || !selectedProject}
ClickConfluenceSync ==
    /\ ContextMounted
    /\ ~(isConfluenceSyncing \/ ~Truthy(selectedProject))
    /\ HandleConfluenceSync

\* handleConfluenceSync after its await: try, finally
ConfluenceSyncResolved(r) ==
    /\ r \in reqs /\ r.kind = "sync_confluence" /\ r.phase = "resolved"
    /\ reqs' = reqs \ {r}
    /\ IF r.story.live
       THEN /\ contextMessage' = Msg("success", SyncedText(r.data))
            /\ isConfluenceSyncing' = FALSE
       ELSE UNCHANGED <<contextMessage, isConfluenceSyncing>>
    /\ UNCHANGED <<selectedProject, issued, lastOp, isJiraSyncing,
                   confluenceSpace, confluenceQuery, activeTab>>
    /\ UNCHANGED contextFrame

\* handleConfluenceSync after its await: catch, finally
ConfluenceSyncRejected(r) ==
    /\ r \in reqs /\ r.kind = "sync_confluence" /\ r.phase = "rejected"
    /\ reqs' = reqs \ {r}
    /\ IF r.story.live
       THEN /\ contextMessage' = Msg("error", ConfluenceSyncFailedText)
            /\ isConfluenceSyncing' = FALSE
       ELSE UNCHANGED <<contextMessage, isConfluenceSyncing>>
    /\ UNCHANGED <<selectedProject, issued, lastOp, isJiraSyncing,
                   confluenceSpace, confluenceQuery, activeTab>>
    /\ UNCHANGED contextFrame

JiraSyncNext ==
    \/ \E p \in Projects \cup {Empty} : ContextSelectProject(p)
    \/ \E tab \in ContextTabs : SetActiveTab(tab)
    \/ ContextServe
    \/ CloseContextMessage
    \/ ClickJiraSync
    \/ \E r \in reqs : JiraSyncResolved(r)
    \/ \E r \in reqs : JiraSyncRejected(r)

\* the Jira syncs of the Context Management view
SpecJiraSync == Init /\ [][JiraSyncNext]_vars

\* the Context Management tab has just been opened
ContextInit ==
    /\ StoriesInit
    /\ responseText = <<>>
    /\ generatedStories = <<>>
    /\ exPhase = "idle"
    /\ ViewsIdle
    /\ activeTab = "context"

ConfluenceSyncNext ==
    \/ \E p \in Projects \cup {Empty} : ContextSelectProject(p)
    \/ ContextServe
    \/ \E text \in SpaceKeys : SetConfluenceSpace(text)
    \/ \E text \in Queries : SetConfluenceQuery(text)
    \/ CloseContextMessage
    \/ ClickConfluenceSync
    \/ \E r \in reqs : ConfluenceSyncResolved(r)
    \/ \E r \in reqs : ConfluenceSyncRejected(r)

\* the Confluence syncs of one mounted lifetime of the Context Management view
SpecConfluenceSync == ContextInit /\ [][ConfluenceSyncNext]_vars

----------------------------------------------------------------------------
(* ProjectContext.tsx: ProjectProvider from its mount, with ProjectSelector *)

MaxProjects == 3    \* entries of the payload of GET /jira/projects

ConnectFailedText == "Failed to connect to Jira. Please check your connection."
FormatFailedText == "Failed to load projects. Unexpected data format."

\* response.data of GET /health: <<services.jira>>, or <<>> for a payload
\* without services
HealthReplies == {<<"connected">>, <<"not_configured">>, <<>>}

\* an entry of the payload: a project by its key, or "bad" for an entry
\* that is not a project object
Entries == Projects \cup {"bad"}

\* response.data of GET /jira/projects: an array, or something else
ProjectReplies ==
    {[array |-> TRUE, items |-> l] :
        l \in UNION {[1..n -> Entries] : n \in 0..MaxProjects}}
    \cup {[array |-> FALSE, items |-> <<>>]}

\* what ProjectProvider and ProjectSelector do not touch
providerFrame == <<stories, editingStory, isPublishing, message, srv, lastFetch,
                   responseText, generatedStories, exPhase,
                   messages, input, isLoading, isUploading, storeErrors,
                   imagesVars, brdVars, contextVars, activeTab, statusVars>>

\* the service answers GET /health
ServeHealth(r) ==
    /\ r.kind = "health" /\ r.phase = "sent"
    /\ \/ \E h \in HealthReplies : reqs' = (reqs \ {r}) \cup {Answer(r, "resolved", h)}
       \/ reqs' = (reqs \ {r}) \cup {Answer(r, "rejected", <<>>)}

\* the service answers GET /jira/projects
ServeProjects(r) ==
    /\ r.kind = "projects" /\ r.phase = "sent"
    /\ \/ \E d \in ProjectReplies : reqs' = (reqs \ {r}) \cup {Answer(r, "resolved", d)}
       \/ reqs' = (reqs \ {r}) \cup {Answer(r, "rejected", <<>>)}

ProviderServe ==
    /\ \E r \in reqs : ServeHealth(r) \/ ServeProjects(r)
    /\ UNCHANGED <<selectedProject, issued, lastOp, providerVars>>
    /\ UNCHANGED providerFrame

\* the effect of ProjectProvider on mount: checkConnection up to its first
\* await, checkJiraConnection()
CheckConnection ==
    /\ lastOp = "none"
    /\ lastOp' = "checkConnection"
    /\ loading' = TRUE
    /\ error' = Null
    /\ Send("health", selectedProject, [from |-> "checkConnection"])
    /\ UNCHANGED <<selectedProject, projects, isJiraConnected>>
    /\ UNCHANGED providerFrame

\* checkConnection: catch, finally
ConnectionFailed(r) ==
    /\ error' = ConnectFailedText
    /\ isJiraConnected' = FALSE
    /\ projects' = <<>>
    /\ loading' = FALSE
    /\ reqs' = reqs \ {r}
    /\ UNCHANGED issued

\* NotConnected without the return: checkConnection goes on to the projects
NotConnected_NoReturn(r) ==
    /\ isJiraConnected' = FALSE
    /\ error' = ConnectFailedText
    /\ projects' = <<>>
    /\ SendNext(r, "projects", r.project, [from |-> "checkConnection"])
    /\ UNCHANGED loading

\* checkConnection, if (!jiraConnected): setError, setProjects([]), return,
\* finally
NotConnected(r) ==
    /\ isJiraConnected' = FALSE
    /\ error' = ConnectFailedText
    /\ projects' = <<>>
    /\ loading' = FALSE
    /\ reqs' = reqs \ {r}
    /\ UNCHANGED issued

\* checkConnection after GET /health resolved
HealthResolved(r) ==
    /\ r \in reqs /\ r.kind = "health" /\ r.phase = "resolved"
    /\ IF r.data = <<>>
       THEN ConnectionFailed(r)
       ELSE IF r.data[1] # "connected"
            THEN NotConnected(r)
            ELSE /\ isJiraConnected' = TRUE
                 /\ SendNext(r, "projects", r.project, [from |-> "checkConnection"])
                 /\ UNCHANGED <<projects, loading, error>>
    /\ UNCHANGED <<selectedProject, lastOp>>
    /\ UNCHANGED providerFrame

\* checkConnection after GET /health rejected
HealthRejected(r) ==
    /\ r \in reqs /\ r.kind = "health" /\ r.phase = "rejected"
    /\ ConnectionFailed(r)
    /\ UNCHANGED <<selectedProject, lastOp>>
    /\ UNCHANGED providerFrame

\* checkConnection after GET /jira/projects resolved: Array.isArray, finally
ProjectsResolved(r) ==
    /\ r \in reqs /\ r.kind = "projects" /\ r.phase = "resolved"
    /\ IF r.data.array
       THEN /\ projects' = r.data.items
            /\ UNCHANGED error
       ELSE /\ projects' = <<>>
            /\ error' = FormatFailedText
    /\ loading' = FALSE
    /\ reqs' = reqs \ {r}
    /\ UNCHANGED <<selectedProject, issued, lastOp, isJiraConnected>>
    /\ UNCHANGED providerFrame

\* checkConnection after GET /jira/projects rejected
ProjectsRejected(r) ==
    /\ r \in reqs /\ r.kind = "projects" /\ r.phase = "rejected"
    /\ ConnectionFailed(r)
    /\ UNCHANGED <<selectedProject, lastOp>>
    /\ UNCHANGED providerFrame

\* ProjectSelector: validProjects, by their keys
ValidProjects(list) == {list[i] : i \in {j \in DOMAIN list : list[j] \in Projects}}

\* ProjectSelector onChange: an option of validProjects is chosen, or the
\* choice is cleared
SelectorChange(p) ==
    /\ lastOp # "none"
    /\ p # selectedProject
    /\ \/ p \in ValidProjects(projects)
       \/ p = Empty /\ Truthy(selectedProject)
    /\ selectedProject' = p
    /\ UNCHANGED <<reqs, issued, lastOp, providerVars>>
    /\ UNCHANGED providerFrame

\* ProjectProvider as it is constructed
ProviderInit ==
    /\ StoriesInit
    /\ responseText = <<>> /\ generatedStories = <<>> /\ exPhase = "idle"
    /\ messages = <<>> /\ input = <<>> /\ isLoading = FALSE
    /\ isUploading = FALSE /\ storeErrors = 0 /\ lastOp = "none"
    /\ uploadedImages = <<>> /\ imagesLoading = FALSE
    /\ uploading = FALSE /\ uploadProgress = 0
    /\ isJiraSyncing = FALSE /\ isConfluenceSyncing = FALSE
    /\ contextMessage = NoMessage
    /\ confluenceSpace = <<>> /\ confluenceQuery = <<>>
    /\ activeTab = "chat"
    /\ projects = <<>>
    /\ loading = TRUE
    /\ error = Null
    /\ isJiraConnected = FALSE
    /\ status = Null
    /\ statusLoading = FALSE

ProviderNext ==
    \/ CheckConnection
    \/ ProviderServe
    \/ \E r \in reqs : HealthResolved(r)
    \/ \E r \in reqs : HealthRejected(r)
    \/ \E r \in reqs : ProjectsResolved(r)
    \/ \E r \in reqs : ProjectsRejected(r)
    \/ \E p \in Projects \cup {Empty} : SelectorChange(p)

SpecProvider == ProviderInit /\ [][ProviderNext]_vars

----------------------------------------------------------------------------
(* BrdUpload.tsx: one mounted lifetime of the BRD upload view *)

\* acceptedFiles, by the number of files: the dropzone has multiple: false
BrdDrops == {0, 1}

\* Math.round((loaded * 100) / total), or 0 without a total
Percents == {0, 50, 100}

\* what BrdUpload does not touch
brdFrame == <<stories, editingStory, isPublishing, message, srv, lastFetch,
              responseText, generatedStories, exPhase,
              messages, input, isLoading, isUploading, storeErrors,
              imagesVars, contextVars, activeTab, providerVars, statusVars>>

\* ProjectSelector onChange while BrdUpload is the view that is mounted
BrdSelectProject(p) ==
    /\ p # selectedProject
    /\ selectedProject' = p
    /\ UNCHANGED <<reqs, issued, lastOp, brdVars>>
    /\ UNCHANGED brdFrame

\* the service answers POST /upload_brd
ServeUploadBrd(r) ==
    /\ r.kind = "upload_brd" /\ r.phase = "sent"
    /\ \/ reqs' = (reqs \ {r}) \cup {Answer(r, "resolved", <<>>)}
       \/ reqs' = (reqs \ {r}) \cup {Answer(r, "rejected", <<>>)}

BrdServe ==
    /\ \E r \in reqs : ServeUploadBrd(r)
    /\ UNCHANGED <<selectedProject, issued, lastOp, brdVars>>
    /\ UNCHANGED brdFrame

\* BrdOnDrop without its first guard
BrdOnDrop_NoGuard(n) ==
    /\ lastOp' = "onDrop"
    /\ IF n = 0
       THEN UNCHANGED <<uploading, uploadProgress, reqs, issued>>
       ELSE /\ uploading' = TRUE
            /\ uploadProgress' = 0
            /\ Send("upload_brd", selectedProject, [from |-> "onDrop"])
    /\ UNCHANGED selectedProject
    /\ UNCHANGED brdFrame

\* BrdUpload.onDrop up to its await; the dropzone takes a drop at any time
BrdOnDrop(n) ==
    /\ lastOp' = "onDrop"
    /\ IF ~Truthy(selectedProject) \/ n = 0
       THEN UNCHANGED <<uploading, uploadProgress, reqs, issued>>
       ELSE /\ uploading' = TRUE
            /\ uploadProgress' = 0
            /\ Send("upload_brd", selectedProject, [from |-> "onDrop"])
    /\ UNCHANGED selectedProject
    /\ UNCHANGED brdFrame

\* onUploadProgress while the request is on its way
OnUploadProgress(r, percent) ==
    /\ r \in reqs /\ r.kind = "upload_brd" /\ r.phase = "sent"
    /\ percent # uploadProgress
    /\ uploadProgress' = percent
    /\ UNCHANGED <<selectedProject, reqs, issued, lastOp, uploading>>
    /\ UNCHANGED brdFrame

\* BrdUpload.onDrop after its await: the try block, or the catch block
BrdUploadSettled(r) ==
    /\ r \in reqs /\ r.kind = "upload_brd" /\ r.phase \in {"resolved", "rejected"}
    /\ uploading' = FALSE
    /\ uploadProgress' = 0
    /\ reqs' = reqs \ {r}
    /\ UNCHANGED <<selectedProject, issued, lastOp>>
    /\ UNCHANGED brdFrame

----------------------------------------------------------------------------
(* One mounted lifetime of whichever view *)

\* the views: those App renders by activeTab, and Images and BrdUpload,
\* which a host other than App mounts
Views == {"chat", "context", "stories", "images", "brd"}

\* the view that is mounted, as it is constructed
MountedInit ==
    /\ StoriesInit
    /\ responseText = <<>> /\ generatedStories = <<>> /\ exPhase = "idle"
    /\ ViewsIdle
    /\ activeTab \in Views

\* the Chat view in a lifetime of messages sent
Sending == activeTab = "chat" /\ lastOp # "handleFileUpload"

\* the Chat view in a lifetime of files attached
Attaching == activeTab = "chat" /\ lastOp # "handleSend"

\* the steps of the mounted view
MountedNext ==
    \/ activeTab = "chat" /\ \E p \in Projects \cup {Empty} : SelectProject(p)
    \/ Sending /\ \E text \in Inputs : SetInput(text)
    \/ Sending /\ KeyPressEnter
    \/ Sending /\ ClickSend
    \/ Sending /\ ChatServe
    \/ Sending /\ \E r \in reqs : HandleSendResolved(r)
    \/ Sending /\ \E r \in reqs : HandleSendRejected(r)
    \/ Sending /\ \E r \in reqs : StoreResolved(r)
    \/ Sending /\ \E r \in reqs : StoreRejected(r)
    \/ Attaching /\ \E file \in FileTypes : ClickAttach(file)
    \/ Attaching /\ UploadServe
    \/ Attaching /\ \E r \in reqs : UploadImageResolved(r)
    \/ Attaching /\ \E r \in reqs : UploadRejected(r)
    \/ Attaching /\ \E r \in reqs : FileTextRead(r)
    \/ Attaching /\ \E r \in reqs : UploadChatResolved(r)
    \/ ContextMounted /\ \E p \in Projects \cup {Empty} : ContextSelectProject(p)
    \/ ContextMounted /\ ContextServe
    \/ ContextMounted /\ \E text \in SpaceKeys : SetConfluenceSpace(text)
    \/ ContextMounted /\ \E text \in Queries : SetConfluenceQuery(text)
    \/ ContextMounted /\ CloseContextMessage
    \/ ContextMounted /\ ClickJiraSync
    \/ ContextMounted /\ \E r \in reqs : JiraSyncResolved(r)
    \/ ContextMounted /\ \E r \in reqs : JiraSyncRejected(r)
    \/ ContextMounted /\ ClickConfluenceSync
    \/ ContextMounted /\ \E r \in reqs : ConfluenceSyncResolved(r)
    \/ ContextMounted /\ \E r \in reqs : ConfluenceSyncRejected(r)
    \/ activeTab = "stories" /\ \E p \in Projects \cup {Empty} : SetSelectedProject(p)
    \/ activeTab = "stories" /\ Serve
    \/ activeTab = "stories" /\ \E r \in reqs : FetchResolved(r)
    \/ activeTab = "stories" /\ \E r \in reqs : FetchRejected(r)
    \/ activeTab = "stories" /\ ClickPublish
    \/ activeTab = "stories" /\ \E r \in reqs : PublishResolved(r)
    \/ activeTab = "stories" /\ \E r \in reqs : PublishRejected(r)
    \/ activeTab = "stories" /\ ClickEdit
    \/ activeTab = "stories" /\ CancelEdit
    \/ activeTab = "stories" /\ \E e \in Edits : HandleSave(e[1], e[2])
    \/ activeTab = "stories" /\ \E r \in reqs : UpdateResolved(r)
    \/ activeTab = "stories" /\ \E r \in reqs : UpdateRejected(r)
    \/ activeTab = "stories" /\ CloseMessage
    \/ activeTab = "images" /\ \E p \in Projects \cup {Empty} : ImagesSelectProject(p)
    \/ activeTab = "images" /\ \E n \in Batches : OnDrop(n)
    \/ activeTab = "images" /\ ImagesServe
    \/ activeTab = "images" /\ \E r \in reqs : ImageUploaded(r)
    \/ activeTab = "images" /\ \E r \in reqs : ImageUploadFailed(r)
    \/ activeTab = "brd" /\ \E p \in Projects \cup {Empty} : BrdSelectProject(p)
    \/ activeTab = "brd" /\ \E n \in BrdDrops : BrdOnDrop(n)
    \/ activeTab = "brd" /\ BrdServe
    \/ activeTab = "brd" /\ \E r \in reqs, percent \in Percents : OnUploadProgress(r, percent)
    \/ activeTab = "brd" /\ \E r \in reqs : BrdUploadSettled(r)

SpecMounted == MountedInit /\ [][MountedNext]_vars

----------------------------------------------------------------------------
(* JiraStatus.tsx, the child of the Context Management view *)

\* response.data.status of GET /jira/test-connection
StatusReplies == {"connected", "not_configured", "error"}

\* what JiraStatus does not touch
statusFrame == <<selectedProject, stories, editingStory, isPublishing, message,
                 srv, lastFetch, responseText, generatedStories, exPhase,
                 messages, input, isLoading, isUploading, storeErrors, lastOp,
                 imagesVars, brdVars, contextVars, activeTab, providerVars>>

\* the effect of JiraStatus on mount has run
StatusChecked == status # Null \/ statusLoading

\* the service answers GET /jira/test-connection
StatusServe ==
    /\ \E r \in reqs :
          /\ r.kind = "test_connection" /\ r.phase = "sent"
          /\ \/ \E d \in StatusReplies :
                   reqs' = (reqs \ {r}) \cup {Answer(r, "resolved", d)}
             \/ reqs' = (reqs \ {r}) \cup {Answer(r, "rejected", <<>>)}
    /\ UNCHANGED <<issued, statusVars>>
    /\ UNCHANGED statusFrame

\* checkJiraConnection up to its await
CheckJiraConnection ==
    /\ statusLoading' = TRUE
    /\ Send("test_connection", Null, [from |-> "checkJiraConnection"])
    /\ UNCHANGED status
    /\ UNCHANGED statusFrame

\* the effect of JiraStatus on mount
StatusMount == ~StatusChecked /\ CheckJiraConnection

\* the Test Connection button: disabled={isLoading}
ClickTestConnection == StatusChecked /\ ~statusLoading /\ CheckJiraConnection

\* checkJiraConnection after its await: try or catch, then finally
TestConnectionSettled(r) ==
    /\ r \in reqs /\ r.kind = "test_connection"
    /\ r.phase \in {"resolved", "rejected"}
    /\ status' = IF r.phase = "resolved" THEN r.data ELSE "error"
    /\ statusLoading' = FALSE
    /\ reqs' = reqs \ {r}
    /\ UNCHANGED issued
    /\ UNCHANGED statusFrame

----------------------------------------------------------------------------
(* The busy flags: one lifetime of ProjectProvider from its mount, or of   *)
(* a mounted view under a loaded provider, every request being answered    *)
(* and every answer resuming its handler                                   *)

\* the views that keep a busy flag
BusyViews == {"chat", "context", "stories", "brd"}

BusyInit ==
    \/ MountedInit /\ activeTab \in BusyViews
    \/ ProviderInit

\* the lifetime is that of ProjectProvider
Starting == loading \/ lastOp = "checkConnection"

\* the lifetime is that of the view
In(view) == ~Starting /\ activeTab = view

\* the lifetime is that of the Context Management view, JiraStatus mounted
InContext == In("context") /\ StatusChecked

\* what the user does, and the progress events of an upload
BusyUser ==
    \/ Starting /\ \E p \in Projects \cup {Empty} : SelectorChange(p)
    \/ In("chat") /\ \E p \in Projects \cup {Empty} : SelectProject(p)
    \/ In("chat") /\ Sending /\ \E text \in Inputs : SetInput(text)
    \/ In("chat") /\ Sending /\ KeyPressEnter
    \/ In("chat") /\ Sending /\ ClickSend
    \/ In("chat") /\ Attaching /\ \E file \in FileTypes : ClickAttach(file)
    \/ InContext /\ \E p \in Projects \cup {Empty} : ContextSelectProject(p)
    \/ InContext /\ \E text \in SpaceKeys : SetConfluenceSpace(text)
    \/ InContext /\ \E text \in Queries : SetConfluenceQuery(text)
    \/ InContext /\ CloseContextMessage
    \/ InContext /\ ClickJiraSync
    \/ InContext /\ ClickConfluenceSync
    \/ InContext /\ ClickTestConnection
    \/ In("stories") /\ \E p \in Projects \cup {Empty} : SetSelectedProject(p)
    \/ In("stories") /\ ClickPublish
    \/ In("stories") /\ ClickEdit
    \/ In("stories") /\ CancelEdit
    \/ In("stories") /\ \E e \in Edits : HandleSave(e[1], e[2])
    \/ In("stories") /\ CloseMessage
    \/ In("brd") /\ \E p \in Projects \cup {Empty} : BrdSelectProject(p)
    \/ In("brd") /\ \E n \in BrdDrops : BrdOnDrop(n)
    \/ In("brd") /\ \E r \in reqs, percent \in Percents : OnUploadProgress(r, percent)

\* the service answers a request
BusyAnswers ==
    \/ Starting /\ ProviderServe
    \/ In("chat") /\ Sending /\ ChatServe
    \/ In("chat") /\ Attaching /\ UploadServe
    \/ InContext /\ StatusServe
    \/ InContext /\ ContextServe
    \/ In("stories") /\ Serve
    \/ In("brd") /\ BrdServe

\* an effect runs on mount, or an answer resumes the handler that awaits it
BusyResumes ==
    \/ loading /\ CheckConnection
    \/ Starting /\ \E r \in reqs : HealthResolved(r)
    \/ Starting /\ \E r \in reqs : HealthRejected(r)
    \/ Starting /\ \E r \in reqs : ProjectsResolved(r)
    \/ Starting /\ \E r \in reqs : ProjectsRejected(r)
    \/ In("chat") /\ Sending /\ \E r \in reqs : HandleSendResolved(r)
    \/ In("chat") /\ Sending /\ \E r \in reqs : HandleSendRejected(r)
    \/ In("chat") /\ Sending /\ \E r \in reqs : StoreResolved(r)
    \/ In("chat") /\ Sending /\ \E r \in reqs : StoreRejected(r)
    \/ In("chat") /\ Attaching /\ \E r \in reqs : UploadImageResolved(r)
    \/ In("chat") /\ Attaching /\ \E r \in reqs : UploadRejected(r)
    \/ In("chat") /\ Attaching /\ \E r \in reqs : FileTextRead(r)
    \/ In("chat") /\ Attaching /\ \E r \in reqs : UploadChatResolved(r)
    \/ In("context") /\ StatusMount
    \/ InContext /\ \E r \in reqs : TestConnectionSettled(r)
    \/ InContext /\ \E r \in reqs : JiraSyncResolved(r)
    \/ InContext /\ \E r \in reqs : JiraSyncRejected(r)
    \/ InContext /\ \E r \in reqs : ConfluenceSyncResolved(r)
    \/ InContext /\ \E r \in reqs : ConfluenceSyncRejected(r)
    \/ In("stories") /\ \E r \in reqs : FetchResolved(r)
    \/ In("stories") /\ \E r \in reqs : FetchRejected(r)
    \/ In("stories") /\ \E r \in reqs : PublishResolved(r)
    \/ In("stories") /\ \E r \in reqs : PublishRejected(r)
    \/ In("stories") /\ \E r \in reqs : UpdateResolved(r)
    \/ In("stories") /\ \E r \in reqs : UpdateRejected(r)
    \/ In("brd") /\ \E r \in reqs : BrdUploadSettled(r)

BusyNext == BusyUser \/ BusyAnswers \/ BusyResumes

\* every request is answered at some time, and every answer resumes its
\* handler (each of these steps changes reqs): the requests of a behaviour
\* are finitely many, so that none waits for ever behind the others
SpecBusy ==
    /\ BusyInit /\ [][BusyNext]_vars
    /\ WF_reqs(BusyAnswers) /\ WF_reqs(BusyResumes)

----------------------------------------------------------------------------
(* Properties of the Stories view, stated for Spec *)

Pending(kind) == {r \in reqs : r.kind = kind}

Ids(list) == [i \in DOMAIN list |-> list[i].id]

\* C1: while a publish request for a story is in flight (issued, and neither
\* its resolution nor its rejection delivered to handlePublish), no second
\* publish request for the same story is in flight.
C1_PublishMutualExclusion ==
    \A r1, r2 \in Pending("publish") :
        r1.story.id = r2.story.id => r1.rid = r2.rid

\* C2: a story whose published flag is true in the Stories list keeps it in
\* the next state, whatever step is taken (a Publish click, the opening of the
\* edit dialog, Save Changes, the completion of a publish or an update), as
\* long as the selected project stays the same and no story-list fetch is
\* pending.
C2_PublishedIsOneWay ==
    [][(selectedProject' = selectedProject /\ Pending("fetch") = {}) =>
          \A i \in DOMAIN stories : \A j \in DOMAIN stories' :
              (stories[i].published /\ stories'[j].id = stories[i].id)
                  => stories'[j].published]_vars

\* C3: every publish and every update request names the project of the
\* story it is about (the project under which that story was fetched).
C3_NoCrossProjectWrite ==
    \A r \in Pending("publish") \cup Pending("update") :
        r.project = ProjOf(r.story.id)

\* C4: when no story-list fetch is in flight and the fetch started for the
\* selected project has succeeded, the stories displayed are the stories of
\* the selected project, in the order of its list.
C4_NoCrossProjectRead ==
    (/\ Truthy(selectedProject)
     /\ Pending("fetch") = {}
     /\ lastFetch.outcome = "ok")
        => Ids(stories) = Ids(SrvList(srv, selectedProject))

\* C5: in the step in which handleSaveEdit sends the update request for a
\* story, that story is not published in the Stories list.
C5_NoUpdateOfPublished ==
    [][\A r \in reqs' \ reqs :
          (r.kind = "update" /\ r.phase = "sent") =>
              \A i \in DOMAIN stories :
                  stories[i].id = r.story.id => ~stories[i].published]_vars

\* C6: every story of the Stories list has a jira_key exactly when its
\* published flag is true.
C6_KeyIffPublished ==
    \A i \in DOMAIN stories :
        (stories[i].jira_key # NoKey) <=> stories[i].published

\* C6 witness: a publish succeeded and marked its story in the list.
C6_Witness ==
    \E i \in DOMAIN stories :
        /\ stories[i].published
        /\ stories[i].jira_key = JiraKey(stories[i].id)
        /\ message = Msg("success", PublishedText(JiraKey(stories[i].id)))

OnlyTouches(prev, next, id) ==
    /\ Len(next) = Len(prev)
    /\ \A i \in DOMAIN prev :
          /\ next[i].id = prev[i].id
          /\ prev[i].id # id => next[i] = prev[i]

\* C25: the step that delivers a successful publish of story s to
\* handlePublish changes, in the Stories list, only the published flag and
\* the jira_key of the entry with the id of s; the step that delivers a
\* successful update of s to handleSaveEdit replaces only the entry with the
\* id of s by the edited story. In both, the length and the order of the
\* list, every other entry and every id stay as they are.
C25_OnlyTargetTouched ==
    [][\A r \in reqs :
          (r.phase = "resolved" /\ r \notin reqs') =>
              /\ r.kind = "publish" =>
                    /\ OnlyTouches(stories, stories', r.story.id)
                    /\ \A i \in DOMAIN stories :
                          stories[i].id = r.story.id =>
                              /\ stories'[i].title = stories[i].title
                              /\ stories'[i].description = stories[i].description
                              /\ stories'[i].published
                              /\ stories'[i].jira_key = r.data
              /\ r.kind = "update" =>
                    /\ OnlyTouches(stories, stories', r.story.id)
                    /\ \A i \in DOMAIN stories :
                          stories[i].id = r.story.id => stories'[i] = r.story]_vars

\* C25 witness: of two stories in the list, the second was edited and saved
\* and the first was published; each shows its own change only.
C25_Witness ==
    /\ Len(stories) = 2
    /\ stories[1] = Story(stories[1].id, "t0", "d0", TRUE, JiraKey(stories[1].id))
    /\ stories[2] = Story(stories[2].id, "t1", "d1", FALSE, NoKey)
    /\ stories[1].id # stories[2].id
    /\ reqs = {}

----------------------------------------------------------------------------
(* Properties of the story extraction, stated for SpecExtract *)

\* the line after the line of position i starts with 'Description: '
DescriptionLineFollows(s, i) ==
    LET e == LineEnd(s, i + 1) IN e + 1 <= Len(s) /\ s[e + 1] = "DE"

\* C9: a 'Story Title: ' marker with no 'Description: ' line after it yields
\* a candidate whose description is the sentinel "No description".
C9_SentinelForMissingDescription ==
    exPhase = "done" =>
        \A i \in 1..Len(responseText) :
            (responseText[i] = "ST" /\ ~DescriptionLineFollows(responseText, i))
                => \E k \in DOMAIN generatedStories :
                       generatedStories[k].description = NoDescription

\* the well-formed pairs of a text in order of appearance: a line that holds
\* 'Story Title: <t>' immediately followed by a line 'Description: <d>'
RECURSIVE WellFormedPairs(_, _)
WellFormedPairs(s, pos) ==
    LET starts == {i \in pos..Len(s) : s[i] = "ST" /\ DescriptionLineFollows(s, i)} IN
    IF starts = {} THEN <<>>
    ELSE LET i == CHOOSE j \in starts : \A k \in starts : j <= k
             e1 == LineEnd(s, i + 1)
             e2 == LineEnd(s, e1 + 2)
         IN <<[title |-> SubSeq(s, i + 1, e1 - 1),
               description |-> SubSeq(s, e1 + 2, e2 - 1),
               published |-> FALSE]>>
            \o WellFormedPairs(s, e2 + 1)

\* C10: the candidates are the well-formed pairs of the text, one candidate
\* for each pair, in order of appearance, with title = t, description = d and
\* published = false.
C10_PairsBecomeCandidates ==
    exPhase = "done" => generatedStories = WellFormedPairs(responseText, 1)

----------------------------------------------------------------------------
(* Properties of the chat turn, stated for SpecChat *)

NoMarker(text) == \A i \in 1..Len(text) : text[i] # "ST"

LastMessage == messages[Len(messages)]

\* the step hands the answer r to the handler that awaits it
Delivered(r) == r \in reqs /\ r.phase \in {"resolved", "rejected"} /\ r \notin reqs'

\* the requests the step issues
Issued == {q \in reqs' : ~\E r \in reqs : r.kind = q.kind /\ r.rid = q.rid}

\* C11: when the response text of a chat turn holds no 'Story Title: '
\* marker, the extraction yields the empty sequence, the assistant message is
\* appended without generatedStories and no POST /stories is sent.
C11_NoMarkersNoStories ==
    [][\A r \in reqs :
          (/\ Delivered(r) /\ r.kind = "chat" /\ r.phase = "resolved"
           /\ r.story.from = "handleSend"
           /\ NoMarker(r.data)) =>
              /\ ExtractStories(r.data) = <<>>
              /\ messages' = Append(messages, Message("assistant", r.data, <<>>))
              /\ Issued = {}]_vars

\* C11 witness: a turn whose response had no marker has ended; only the chat
\* request was ever issued.
C11_Witness ==
    /\ messages # <<>>
    /\ LastMessage.type = "assistant"
    /\ LastMessage.content \in Replies
    /\ NoMarker(LastMessage.content)
    /\ LastMessage.generatedStories = <<>>
    /\ ~isLoading
    /\ issued = 1 /\ reqs = {}

\* the step issues exactly one request, POST /stories for candidate k of the
\* turn, under the project of the turn
StoresCandidate(project, response, found, k) ==
    Issued = {Request(FreeRid("store"), "store", project, StoreClosure(response, found, k))}

\* C12: every candidate is persisted by one POST /stories, in extraction
\* order: the step that resumes handleSend with the chat response sends the
\* request for the first candidate; the step that resumes it with the answer
\* to the request for candidate k, resolved or rejected, sends the request
\* for candidate k + 1 and nothing else, or after the last candidate appends
\* the assistant message with the response text and all candidates.
C12_EachCandidatePersisted ==
    [][/\ \A r \in reqs :
            (/\ Delivered(r) /\ r.kind = "chat" /\ r.phase = "resolved"
             /\ r.story.from = "handleSend"
             /\ ExtractStories(r.data) # <<>>) =>
                /\ StoresCandidate(r.project, r.data, ExtractStories(r.data), 1)
                /\ messages' = messages
       /\ \A r \in reqs :
            (Delivered(r) /\ r.kind = "store") =>
                IF r.story.k < Len(r.story.stories)
                THEN /\ StoresCandidate(r.project, r.story.response,
                                        r.story.stories, r.story.k + 1)
                     /\ messages' = messages
                ELSE /\ Issued = {}
                     /\ messages' = Append(messages,
                            Message("assistant", r.story.response, <<r.story.stories>>))]_vars

\* C12 witness: a turn with two candidates has ended with the assistant
\* message that carries both, after a POST /stories failed; the chat request
\* and two POST /stories were issued.
C12_Witness ==
    /\ messages # <<>>
    /\ LastMessage.type = "assistant"
    /\ LastMessage.generatedStories = <<ExtractStories(LastMessage.content)>>
    /\ Len(ExtractStories(LastMessage.content)) = 2
    /\ storeErrors > 0
    /\ issued = 3 /\ reqs = {}

\* C14: the step that resumes handleSend with a failed chat request appends
\* exactly one message, the assistant message with the fixed failure text and
\* no generatedStories, and sends nothing.
C14_ChatFailure ==
    [][\A r \in reqs :
          (/\ Delivered(r) /\ r.kind = "chat" /\ r.phase = "rejected"
           /\ r.story.from = "handleSend") =>
              /\ messages' = Append(messages, Message("assistant", ChatFailedText, <<>>))
              /\ Issued = {}]_vars

\* C14 witness: the only request ever issued was a chat request, it failed,
\* and the transcript ends with the failure message.
C14_Witness ==
    /\ Len(messages) = 2
    /\ messages[1].type = "user"
    /\ LastMessage = Message("assistant", ChatFailedText, <<>>)
    /\ ~isLoading
    /\ issued = 1 /\ reqs = {}

\* C17: a run of handleSend (from the Enter key or the Send button) with an
\* input that is empty or whitespace-only sends nothing, appends nothing and
\* leaves input and isLoading as they are.
C17_BlankInputRejected ==
    [][((KeyPressEnter \/ ClickSend) /\ Trim(input) = <<>>) =>
          /\ reqs' = reqs /\ issued' = issued
          /\ messages' = messages
          /\ input' = input
          /\ isLoading' = isLoading]_vars

\* C17 witness: handleSend has run, on blank input only: the text field
\* holds a space, nothing was sent and the transcript is empty.
C17_Witness ==
    /\ lastOp = "handleSend"
    /\ input = <<" ">>
    /\ Truthy(selectedProject)
    /\ messages = <<>>
    /\ ~isLoading
    /\ issued = 0 /\ reqs = {}

----------------------------------------------------------------------------
(* Properties of the Images view, stated for SpecImages *)

\* C15: a failed upload does not end the batch: the step that resumes onDrop
\* with the answer to the upload of file k of n issues the upload of file
\* k + 1 when k < n, whether the upload of file k resolved or was rejected,
\* and appends the response of every upload that resolved to uploadedImages.
C15_BatchSurvivesFailure ==
    [][\A r \in reqs :
          (Delivered(r) /\ r.kind = "upload_image" /\ r.story.from = "onDrop") =>
              /\ r.story.k < r.story.files =>
                     Issued = {Request(FreeRid("upload_image"), "upload_image", r.project,
                                       DropClosure(r.story.files, r.story.k + 1))}
              /\ r.phase = "resolved" =>
                     uploadedImages' = Append(uploadedImages, r.data)]_vars

----------------------------------------------------------------------------
(* Properties of the Context Management view, stated for SpecConfluenceSync *)
(* (C18) and SpecJiraSync (C20) *)

\* C18: every POST /sync_confluence is issued with a project selected and a
\* space key that is not blank, and carries search_query only when the query
\* field is not blank, as the trimmed query text; a run of
\* handleConfluenceSync without a project or with a blank space key sets an
\* error message and sends nothing.
C18_ConfluenceSyncNeedsSpaceKey ==
    [][/\ \A q \in Issued :
            q.kind = "sync_confluence" =>
                /\ Truthy(selectedProject)
                /\ Trim(confluenceSpace) # <<>>
                /\ q.story.space_key = confluenceSpace
                /\ q.story.search_query =
                       (IF Trim(confluenceQuery) = <<>> THEN <<>>
                        ELSE <<Trim(confluenceQuery)>>)
       /\ (HandleConfluenceSync
             /\ (~Truthy(selectedProject) \/ Trim(confluenceSpace) = <<>>)) =>
                /\ contextMessage' # NoMessage
                /\ contextMessage'[1].type = "error"
                /\ Issued = {}]_vars

\* C18 witness: a Confluence sync is in flight whose search_query is the
\* query field without the blanks around it.
C18_Witness ==
    \E r \in reqs :
        /\ r.kind = "sync_confluence" /\ r.phase = "sent" /\ r.story.live
        /\ confluenceQuery = <<" ", "q", " ">>
        /\ r.story.search_query = <<(<<"q">>)>>
        /\ r.story.space_key = confluenceSpace
        /\ isConfluenceSyncing

\* C20: at most one POST /sync_jira issued from the Context Management view
\* is in flight (issued and not yet handed back to handleJiraSync).
C20_JiraSyncSerialized ==
    Cardinality(Pending("sync_jira")) <= 1

----------------------------------------------------------------------------
(* Failure messages of the Stories view, stated for Spec *)

\* C16: the message shown by the step that receives a failed publish or
\* update tells the kind of the failure: it is not the message the same
\* handler shows for a failure of another kind.
C16_FailuresDistinguishKind ==
    [][\A r \in reqs :
          (/\ Delivered(r) /\ r.kind \in {"publish", "update"}
           /\ r.phase = "rejected") =>
              \A c \in FailureKinds \ {r.data} :
                  message' # (IF r.kind = "publish" THEN PublishCatch(c)
                                                    ELSE UpdateCatch(c))]_vars

----------------------------------------------------------------------------
(* Properties of ProjectProvider, stated for SpecProvider *)

\* checkConnection has run to its end
ConnectionChecked ==
    lastOp = "checkConnection" /\ Pending("health") = {} /\ Pending("projects") = {}

\* C19: once checkConnection has finished, loading is false, and projects is
\* non-empty only with isJiraConnected true and no error; the step that ends
\* checkConnection on a failing path (GET /health resolved with jira not
\* 'connected' or without services, either request rejected, a payload of
\* GET /jira/projects that is not an array) leaves projects empty, error
\* non-null and loading false, and issues nothing; GET /jira/projects is
\* issued only by the step that receives jira 'connected' from GET /health,
\* and an array payload becomes projects.
C19_StartupProjectLoading ==
    [][/\ ConnectionChecked' =>
            /\ loading' = FALSE
            /\ projects' # <<>> => (isJiraConnected' /\ error' = Null)
       /\ \A r \in reqs :
            (/\ Delivered(r) /\ r.kind \in {"health", "projects"}
             /\ \/ r.phase = "rejected"
                \/ r.kind = "health" /\ r.data # <<"connected">>
                \/ r.kind = "projects" /\ r.phase = "resolved" /\ ~r.data.array) =>
                /\ projects' = <<>>
                /\ error' # Null
                /\ loading' = FALSE
                /\ Issued = {}
       /\ \A q \in Issued :
            q.kind = "projects" =>
                \E r \in reqs : /\ Delivered(r) /\ r.kind = "health"
                                /\ r.phase = "resolved" /\ r.data = <<"connected">>
       /\ \A r \in reqs :
            (/\ Delivered(r) /\ r.kind = "projects" /\ r.phase = "resolved"
             /\ r.data.array) =>
                projects' = r.data.items /\ error' = Null /\ loading' = FALSE]_vars

\* C19 witness: checkConnection has ended after GET /health alone: projects
\* is empty, the error is set and loading is false.
C19_Witness ==
    /\ ConnectionChecked
    /\ issued = 1
    /\ projects = <<>>
    /\ error = ConnectFailedText
    /\ ~isJiraConnected
    /\ ~loading

----------------------------------------------------------------------------
(* The project guard of the handlers, stated for SpecMounted *)

\* the requests that query or fill a project's namespace
Guarded == {"chat", "sync_jira", "sync_confluence", "upload_image",
            "upload_brd", "fetch", "publish"}

\* a handler that issues such a request is invoked
HandlerInvoked ==
    \/ HandleSend
    \/ \E file \in FileTypes : HandleFileUpload(file)
    \/ HandleJiraSync
    \/ HandleConfluenceSync
    \/ \E n \in Batches : OnDrop(n)
    \/ \E n \in BrdDrops : BrdOnDrop(n)
    \/ \E i \in DOMAIN stories : HandlePublish(stories[i])

----------------------------------------------------------------------------
(* The project of a chat turn, stated for SpecChat *)

\* C22: every POST /stories of a turn of handleSend carries the project of
\* the turn's POST /chat, whatever is selected when it leaves: the request
\* for the first story carries the project of the chat request whose answer
\* the step receives, and the request for each later story the project of
\* the request for the story before it.
C22_StoriesStoredUnderTurnProject ==
    [][\A r \in reqs :
          (/\ Delivered(r)
           /\ \/ r.kind = "chat" /\ r.story.from = "handleSend"
              \/ r.kind = "store") =>
              \A q \in Issued : q.kind = "store" /\ q.project = r.project]_vars

\* C22 witness: the request for the second story of a turn is in flight
\* under the project of the turn while another project is selected.
C22_Witness ==
    \E q \in Pending("store") :
        /\ q.story.k = 2
        /\ Truthy(selectedProject)
        /\ q.project # selectedProject

----------------------------------------------------------------------------
(* The transcript of the Chat view, stated for SpecChat *)

\* the messages of one author in the transcript
MessagesOf(type) == {i \in 1..Len(messages) : messages[i].type = type}

\* the step is an accepted run of handleSend: its POST /chat leaves
TurnAccepted(q) ==
    /\ q \in Issued
    /\ q.kind = "chat" /\ q.story.from = "handleSend"

\* the step ends a turn of handleSend
TurnSettled == isLoading /\ ~isLoading'

\* the text the assistant message of a turn shows when the answer r ends it
TurnText(r) ==
    IF r.kind = "store" THEN r.story.response
    ELSE IF r.phase = "resolved" THEN r.data
    ELSE ChatFailedText

\* generatedStories of that message: set after the loop over the stories
TurnStories(r) == IF r.kind = "store" THEN <<r.story.stories>> ELSE <<>>

\* C24: the transcript only grows at its end. The step in which handleSend
\* is accepted appends the user message with the input as typed and clears
\* the input; the step that ends the turn appends one assistant message,
\* with the response text as received (the fixed failure text after a
\* failed chat request), and leaves no POST /stories in flight; every other
\* step leaves the transcript as it is, so that each user message has its
\* one assistant message once its turn has ended.
C24_TranscriptAppendOnly ==
    [][/\ Len(messages) <= Len(messages')
       /\ SubSeq(messages', 1, Len(messages)) = messages
       /\ \A q \in reqs' : TurnAccepted(q) =>
              /\ messages' = Append(messages, Message("user", input, <<>>))
              /\ q.story.message = input
              /\ input' = <<>>
       /\ TurnSettled =>
              /\ \E r \in reqs :
                    /\ Delivered(r)
                    /\ messages' = Append(messages,
                           Message("assistant", TurnText(r), TurnStories(r)))
              /\ Pending("store")' = {}
       /\ (~TurnSettled /\ ~\E q \in reqs' : TurnAccepted(q)) =>
              messages' = messages
       /\ Cardinality(MessagesOf("user")) =
              Cardinality(MessagesOf("assistant")) + (IF isLoading THEN 1 ELSE 0)]_vars

\* C24 witness: two turns have ended, the first with a failed chat request
\* and the second after its stories were stored, and a third input is typed.
C24_Witness ==
    /\ Len(messages) = 4
    /\ messages[2] = Message("assistant", ChatFailedText, <<>>)
    /\ messages[4].type = "assistant"
    /\ messages[4].generatedStories # <<>>
    /\ ~isLoading /\ reqs = {}
    /\ input = <<"q">>

----------------------------------------------------------------------------
(* The busy flags, stated for SpecBusy *)

\* a busy flag is set
Busy ==
    \/ isLoading \/ isUploading
    \/ isPublishing # Null
    \/ isJiraSyncing \/ isConfluenceSyncing
    \/ uploading
    \/ statusLoading
    \/ loading

\* the effect of ProjectProvider on mount has yet to run
MountPending == lastOp = "none" /\ loading

\* no further request can leave in this behaviour
BudgetSpent == issued = MaxReq

----------------------------------------------------------------------------
(* Properties of the Chat view, stated for SpecChatView *)

\* C21: at most one POST /chat of the Chat view is in flight at any time,
\* whether it was started by the Send button, the Enter key or a document
\* attached through the attach button.
C21_OneChatRequestInFlight == Cardinality(Pending("chat")) <= 1

====
